---- MODULE Spec2Model ----
(***************************************************************************)
(* Universal Block CLI: the HTML <-> block-tree transcoders.               *)
(*                                                                         *)
(* A JavaScript string is modelled as a sequence of one-character strings, *)
(* so "<set />" is << "<", "s", "e", "t", " ", "/", ">" >>.  A DOM node    *)
(* and a block are records; a JavaScript object used as a map (globalAttrs)*)
(* is a sequence of [name, value] entries in insertion order.  The random  *)
(* clientId of a block is left out of the block records: no operation of   *)
(* the transcoders reads it.                                               *)
(***************************************************************************)
EXTENDS Integers, Sequences, FiniteSets, TLC

(***************************************************************************)
(* Characters and strings                                                  *)
(***************************************************************************)
UpperCase == << "A", "B", "C", "D", "E", "F", "G", "H", "I", "J", "K", "L", "M",
                "N", "O", "P", "Q", "R", "S", "T", "U", "V", "W", "X", "Y", "Z" >>

LowerCase == << "a", "b", "c", "d", "e", "f", "g", "h", "i", "j", "k", "l", "m",
                "n", "o", "p", "q", "r", "s", "t", "u", "v", "w", "x", "y", "z" >>

Digits == { "0", "1", "2", "3", "4", "5", "6", "7", "8", "9" }

Range(f) == { f[i] : i \in DOMAIN f }

Letters == Range(UpperCase) \cup Range(LowerCase)

\* \w of a JavaScript regular expression
WordChars == Letters \cup Digits \cup { "_" }

\* the characters String.prototype.trim removes and the HTML parser skips
WhiteSpace == { " ", "\n", "\t" }

toLowerCaseChar(c) ==
    IF c \in Range(UpperCase)
    THEN LowerCase[CHOOSE i \in DOMAIN UpperCase : UpperCase[i] = c]
    ELSE c

\* String.prototype.toLowerCase
toLowerCase(s) == [i \in DOMAIN s |-> toLowerCaseChar(s[i])]

RECURSIVE Flatten(_)
\* the concatenation of a sequence of strings
Flatten(ss) == IF ss = << >> THEN << >> ELSE Head(ss) \o Flatten(Tail(ss))

RECURSIVE Join(_, _)
\* Array.prototype.join
Join(ss, sep) ==
    IF ss = << >> THEN << >>
    ELSE IF Len(ss) = 1 THEN ss[1]
    ELSE ss[1] \o sep \o Join(Tail(ss), sep)

RECURSIVE TrimStart(_)
TrimStart(s) ==
    IF s # << >> /\ Head(s) \in WhiteSpace THEN TrimStart(Tail(s)) ELSE s

RECURSIVE TrimEnd(_)
TrimEnd(s) ==
    IF s # << >> /\ s[Len(s)] \in WhiteSpace
    THEN TrimEnd(SubSeq(s, 1, Len(s) - 1)) ELSE s

\* String.prototype.trim
\* a trim of the start only
TrimOfStart(s) == TrimStart(s)

Trim(s) == TrimEnd(TrimStart(s))

\* s has the string t at position i
StartsWithAt(s, i, t) ==
    /\ i + Len(t) - 1 <= Len(s)
    /\ \A k \in 1..Len(t) : s[i + k - 1] = t[k]

\* the first position >= i of s that holds a character of set cs, or Len(s)+1
RECURSIVE IndexOfAny(_, _, _)
IndexOfAny(s, i, cs) ==
    IF i > Len(s) THEN Len(s) + 1
    ELSE IF s[i] \in cs THEN i
    ELSE IndexOfAny(s, i + 1, cs)

\* the first position >= i of s that holds a character outside cs, or Len(s)+1
RECURSIVE IndexOfNone(_, _, _)
IndexOfNone(s, i, cs) ==
    IF i > Len(s) THEN Len(s) + 1
    ELSE IF s[i] \notin cs THEN i
    ELSE IndexOfNone(s, i + 1, cs)

(***************************************************************************)
(* Tag Policy Table (tagConfig.js)                                         *)
(***************************************************************************)
null == [isNull |-> TRUE]

tagConfigs ==
    (<< "s", "e", "t" >>      :> [contentType |-> "empty",  selfClosing |-> TRUE])
 @@ (<< "l", "o", "o", "p" >> :> [contentType |-> "blocks", selfClosing |-> FALSE])
 @@ (<< "i", "f" >>           :> [contentType |-> "blocks", selfClosing |-> FALSE])

\* what tagConfigs, an object literal, inherits from Object.prototype under
\* a name without an upper-case letter: the function Object under
\* constructor, Object.prototype itself under __proto__
InheritedProperties ==
    (<< "c", "o", "n", "s", "t", "r", "u", "c", "t", "o", "r" >> :> [function |-> "Object"])
 @@ (<< "_", "_", "p", "r", "o", "t", "o", "_", "_" >> :> [object |-> "Object.prototype"])

\* tagConfigs[tagName.toLowerCase()] || null: the property read finds own
\* and inherited properties
getTagConfig(tagName) ==
    LET key == toLowerCase(tagName)
    IN  IF key \in DOMAIN tagConfigs THEN tagConfigs[key]
        ELSE IF key \in DOMAIN InheritedProperties THEN InheritedProperties[key]
        ELSE null

\* config?.selfClosing !== undefined
HasSelfClosing(config) == config # null /\ "selfClosing" \in DOMAIN config

\* config?.selfClosing === true
SelfClosingIsTrue(config) == HasSelfClosing(config) /\ config.selfClosing = TRUE

(***************************************************************************)
(* The preprocessing of parseHTMLToBlocks:                                 *)
(*   html.replace(/<(\w+)([^>]*?)\/>/g, ...)                               *)
(* A match at position i is "<", the longest run of word characters, then  *)
(* the shortest run of characters other than ">" that is followed by "/>". *)
(* As no character of the run is ">", the match exists iff the first ">"   *)
(* after the word run is preceded by a "/" that lies after the word run.   *)
(***************************************************************************)
MatchSelfClosingAt(s, i) ==
    LET nameEnd == IndexOfNone(s, i + 1, WordChars)
        gt      == IndexOfAny(s, nameEnd, { ">" })
    IN  IF /\ s[i] = "<"
           /\ nameEnd > i + 1
           /\ gt <= Len(s)
           /\ gt - 1 >= nameEnd
           /\ s[gt - 1] = "/"
        THEN [found   |-> TRUE,
              tagName |-> SubSeq(s, i + 1, nameEnd - 1),
              attrs   |-> SubSeq(s, nameEnd, gt - 2),
              next    |-> gt + 1]
        ELSE [found |-> FALSE]

RECURSIVE ReplaceSelfClosing(_, _)
ReplaceSelfClosing(s, i) ==
    IF i > Len(s) THEN << >>
    ELSE LET m == MatchSelfClosingAt(s, i)
         IN  IF m.found
             THEN (IF SelfClosingIsTrue(getTagConfig(toLowerCase(m.tagName)))
                   THEN << "<" >> \o m.tagName \o m.attrs \o << ">", "<", "/" >>
                            \o m.tagName \o << ">" >>
                   ELSE SubSeq(s, i, m.next - 1))
                  \o ReplaceSelfClosing(s, m.next)
             ELSE << s[i] >> \o ReplaceSelfClosing(s, i + 1)

(***************************************************************************)
(* The DOM that new JSDOM(text) builds: the tokenizer and the "in body"    *)
(* and foreign-content tree construction of the HTML Standard (13.2.5,     *)
(* 13.2.6), for documents without comments, doctypes, tables, formatting   *)
(* elements, raw-text elements and templates.                              *)
(***************************************************************************)
toUpperCaseChar(c) ==
    IF c \in Range(LowerCase)
    THEN UpperCase[CHOOSE i \in DOMAIN LowerCase : LowerCase[i] = c]
    ELSE c

toUpperCase(s) == [i \in DOMAIN s |-> toUpperCaseChar(s[i])]

\* the character references with a closing ";" that the transcoders write
CharRefs ==
    << [ref |-> << "&", "a", "m", "p", ";" >>,           char |-> "&"],
       [ref |-> << "&", "q", "u", "o", "t", ";" >>,      char |-> "\""],
       [ref |-> << "&", "#", "x", "2", "7", ";" >>,      char |-> "'"],
       [ref |-> << "&", "l", "t", ";" >>,                char |-> "<"],
       [ref |-> << "&", "g", "t", ";" >>,                char |-> ">"] >>

RECURSIVE DecodeCharRefs(_, _)
DecodeCharRefs(s, i) ==
    IF i > Len(s) THEN << >>
    ELSE IF s[i] = "&" /\ \E k \in DOMAIN CharRefs : StartsWithAt(s, i, CharRefs[k].ref)
    THEN LET k == CHOOSE k \in DOMAIN CharRefs : StartsWithAt(s, i, CharRefs[k].ref)
         IN  << CharRefs[k].char >> \o DecodeCharRefs(s, i + Len(CharRefs[k].ref))
    ELSE << s[i] >> \o DecodeCharRefs(s, i + 1)

\* an attribute whose name the tag already has is dropped
AddAttribute(attrs, name, value) ==
    IF \E k \in DOMAIN attrs : attrs[k].name = name THEN attrs
    ELSE Append(attrs, [name |-> name, value |-> value])

\* the tokenizer states from "before attribute name" to the end of the tag
RECURSIVE AttributeStates(_, _, _)
AttributeStates(s, i, attrs) ==
    IF i > Len(s) THEN [eof |-> TRUE]
    ELSE IF s[i] \in WhiteSpace THEN AttributeStates(s, i + 1, attrs)
    ELSE IF s[i] = ">"
    THEN [eof |-> FALSE, attributes |-> attrs, selfClosing |-> FALSE, next |-> i + 1]
    ELSE IF s[i] = "/"
    THEN IF i + 1 <= Len(s) /\ s[i + 1] = ">"
         THEN [eof |-> FALSE, attributes |-> attrs, selfClosing |-> TRUE, next |-> i + 2]
         ELSE AttributeStates(s, i + 1, attrs)
    ELSE LET nameEnd   == IndexOfAny(s, i + 1, WhiteSpace \cup { "/", ">", "=" })
             name      == toLowerCase(SubSeq(s, i, nameEnd - 1))
             afterName == IndexOfNone(s, nameEnd, WhiteSpace)
         IN  IF afterName <= Len(s) /\ s[afterName] = "="
             THEN LET v == IndexOfNone(s, afterName + 1, WhiteSpace)
                  IN  IF v > Len(s) THEN [eof |-> TRUE]
                      ELSE IF s[v] \in { "\"", "'" }
                      THEN LET close == IndexOfAny(s, v + 1, { s[v] })
                           IN  IF close > Len(s) THEN [eof |-> TRUE]
                               ELSE AttributeStates(s, close + 1,
                                        AddAttribute(attrs, name,
                                            DecodeCharRefs(SubSeq(s, v + 1, close - 1), 1)))
                      ELSE IF s[v] = ">"
                      THEN AttributeStates(s, v, AddAttribute(attrs, name, << >>))
                      ELSE LET e == IndexOfAny(s, v, WhiteSpace \cup { ">" })
                           IN  AttributeStates(s, e,
                                   AddAttribute(attrs, name,
                                       DecodeCharRefs(SubSeq(s, v, e - 1), 1)))
             ELSE AttributeStates(s, nameEnd, AddAttribute(attrs, name, << >>))

\* the tokens of text s from position i on; a tag the text ends in is dropped
RECURSIVE Tokenize(_, _)
Tokenize(s, i) ==
    IF i > Len(s) THEN << >>
    ELSE IF s[i] = "<" /\ i + 1 <= Len(s) /\ s[i + 1] \in Letters
    THEN LET nameEnd == IndexOfAny(s, i + 1, WhiteSpace \cup { "/", ">" })
             t       == AttributeStates(s, nameEnd, << >>)
         IN  IF t.eof THEN << >>
             ELSE << [type        |-> "StartTag",
                      tagName     |-> toLowerCase(SubSeq(s, i + 1, nameEnd - 1)),
                      attributes  |-> t.attributes,
                      selfClosing |-> t.selfClosing] >> \o Tokenize(s, t.next)
    ELSE IF StartsWithAt(s, i, << "<", "/" >>) /\ i + 2 <= Len(s) /\ s[i + 2] \in Letters
    THEN LET nameEnd == IndexOfAny(s, i + 2, WhiteSpace \cup { "/", ">" })
             t       == AttributeStates(s, nameEnd, << >>)
         IN  IF t.eof THEN << >>
             ELSE << [type    |-> "EndTag",
                      tagName |-> toLowerCase(SubSeq(s, i + 2, nameEnd - 1))] >>
                  \o Tokenize(s, t.next)
    ELSE IF StartsWithAt(s, i, << "<", "/", ">" >>) THEN Tokenize(s, i + 3)
    ELSE IF StartsWithAt(s, i, << "<", "/" >>) /\ i + 2 <= Len(s)
    THEN LET gt == IndexOfAny(s, i + 2, { ">" })
         IN  << [type |-> "Comment", data |-> SubSeq(s, i + 2, gt - 1)] >>
             \o Tokenize(s, gt + 1)
    ELSE IF s[i] = "&" /\ \E k \in DOMAIN CharRefs : StartsWithAt(s, i, CharRefs[k].ref)
    THEN LET k == CHOOSE k \in DOMAIN CharRefs : StartsWithAt(s, i, CharRefs[k].ref)
         IN  << [type |-> "Character", data |-> CharRefs[k].char] >>
             \o Tokenize(s, i + Len(CharRefs[k].ref))
    ELSE << [type |-> "Character", data |-> s[i]] >> \o Tokenize(s, i + 1)

\* start tags the parser inserts and pops at once (HTML Standard 13.2.6.4.7)
ParserVoidTags ==
    { << "a", "r", "e", "a" >>, << "b", "r" >>, << "e", "m", "b", "e", "d" >>,
       << "i", "m", "g" >>, << "k", "e", "y", "g", "e", "n" >>,
       << "w", "b", "r" >>, << "i", "n", "p", "u", "t" >>,
       << "p", "a", "r", "a", "m" >>, << "s", "o", "u", "r", "c", "e" >>,
       << "t", "r", "a", "c", "k" >>, << "h", "r" >>, << "b", "a", "s", "e" >>,
       << "b", "a", "s", "e", "f", "o", "n", "t" >>,
       << "b", "g", "s", "o", "u", "n", "d" >>, << "l", "i", "n", "k" >>,
       << "m", "e", "t", "a" >> }

\* start tags the "in body" insertion mode ignores
ParserIgnoredTags ==
    { << "c", "a", "p", "t", "i", "o", "n" >>, << "c", "o", "l" >>,
       << "c", "o", "l", "g", "r", "o", "u", "p" >>,
       << "f", "r", "a", "m", "e" >>, << "h", "e", "a", "d" >>,
       << "t", "b", "o", "d", "y" >>, << "t", "d" >>,
       << "t", "f", "o", "o", "t" >>, << "t", "h" >>,
       << "t", "h", "e", "a", "d" >>, << "t", "r" >> }

\* start tags handled as: close an open p element, then insert
ClosePTags ==
    { << "a", "d", "d", "r", "e", "s", "s" >>,
       << "a", "r", "t", "i", "c", "l", "e" >>, << "a", "s", "i", "d", "e" >>,
       << "b", "l", "o", "c", "k", "q", "u", "o", "t", "e" >>,
       << "c", "e", "n", "t", "e", "r" >>,
       << "d", "e", "t", "a", "i", "l", "s" >>,
       << "d", "i", "a", "l", "o", "g" >>, << "d", "i", "r" >>,
       << "d", "i", "v" >>, << "d", "l" >>,
       << "f", "i", "e", "l", "d", "s", "e", "t" >>,
       << "f", "i", "g", "c", "a", "p", "t", "i", "o", "n" >>,
       << "f", "i", "g", "u", "r", "e" >>, << "f", "o", "o", "t", "e", "r" >>,
       << "h", "e", "a", "d", "e", "r" >>, << "h", "g", "r", "o", "u", "p" >>,
       << "m", "a", "i", "n" >>, << "m", "e", "n", "u" >>, << "n", "a", "v" >>,
       << "o", "l" >>, << "p" >>, << "s", "e", "a", "r", "c", "h" >>,
       << "s", "e", "c", "t", "i", "o", "n" >>,
       << "s", "u", "m", "m", "a", "r", "y" >>, << "u", "l" >> }

\* end tags closed by "pop until the element is popped" when it is in scope
BlockEndTags ==
    { << "a", "d", "d", "r", "e", "s", "s" >>,
       << "a", "r", "t", "i", "c", "l", "e" >>, << "a", "s", "i", "d", "e" >>,
       << "b", "l", "o", "c", "k", "q", "u", "o", "t", "e" >>,
       << "b", "u", "t", "t", "o", "n" >>, << "c", "e", "n", "t", "e", "r" >>,
       << "d", "e", "t", "a", "i", "l", "s" >>,
       << "d", "i", "a", "l", "o", "g" >>, << "d", "i", "r" >>,
       << "d", "i", "v" >>, << "d", "l" >>,
       << "f", "i", "e", "l", "d", "s", "e", "t" >>,
       << "f", "i", "g", "c", "a", "p", "t", "i", "o", "n" >>,
       << "f", "i", "g", "u", "r", "e" >>, << "f", "o", "o", "t", "e", "r" >>,
       << "h", "e", "a", "d", "e", "r" >>, << "h", "g", "r", "o", "u", "p" >>,
       << "l", "i", "s", "t", "i", "n", "g" >>, << "m", "a", "i", "n" >>,
       << "m", "e", "n", "u" >>, << "n", "a", "v" >>, << "o", "l" >>,
       << "p", "r", "e" >>, << "s", "e", "a", "r", "c", "h" >>,
       << "s", "e", "c", "t", "i", "o", "n" >>,
       << "s", "u", "m", "m", "a", "r", "y" >>, << "u", "l" >> }

HeadingTags ==
    { << "h", "1" >>, << "h", "2" >>, << "h", "3" >>, << "h", "4" >>,
       << "h", "5" >>, << "h", "6" >> }

\* "generate implied end tags"
ImpliedEndTags ==
    { << "d", "d" >>, << "d", "t" >>, << "l", "i" >>,
       << "o", "p", "t", "g", "r", "o", "u", "p" >>,
       << "o", "p", "t", "i", "o", "n" >>, << "p" >>, << "r", "b" >>,
       << "r", "p" >>, << "r", "t" >>, << "r", "t", "c" >> }

\* the "special" category of HTML elements
SpecialTags ==
    { << "a", "d", "d", "r", "e", "s", "s" >>,
       << "a", "p", "p", "l", "e", "t" >>, << "a", "r", "e", "a" >>,
       << "a", "r", "t", "i", "c", "l", "e" >>, << "a", "s", "i", "d", "e" >>,
       << "b", "a", "s", "e" >>, << "b", "a", "s", "e", "f", "o", "n", "t" >>,
       << "b", "g", "s", "o", "u", "n", "d" >>,
       << "b", "l", "o", "c", "k", "q", "u", "o", "t", "e" >>,
       << "b", "o", "d", "y" >>, << "b", "r" >>,
       << "b", "u", "t", "t", "o", "n" >>,
       << "c", "a", "p", "t", "i", "o", "n" >>,
       << "c", "e", "n", "t", "e", "r" >>, << "c", "o", "l" >>,
       << "c", "o", "l", "g", "r", "o", "u", "p" >>, << "d", "d" >>,
       << "d", "e", "t", "a", "i", "l", "s" >>, << "d", "i", "r" >>,
       << "d", "i", "v" >>, << "d", "l" >>, << "d", "t" >>,
       << "e", "m", "b", "e", "d" >>,
       << "f", "i", "e", "l", "d", "s", "e", "t" >>,
       << "f", "i", "g", "c", "a", "p", "t", "i", "o", "n" >>,
       << "f", "i", "g", "u", "r", "e" >>, << "f", "o", "o", "t", "e", "r" >>,
       << "f", "o", "r", "m" >>, << "f", "r", "a", "m", "e" >>,
       << "f", "r", "a", "m", "e", "s", "e", "t" >>, << "h", "1" >>,
       << "h", "2" >>, << "h", "3" >>, << "h", "4" >>, << "h", "5" >>,
       << "h", "6" >>, << "h", "e", "a", "d" >>,
       << "h", "e", "a", "d", "e", "r" >>, << "h", "g", "r", "o", "u", "p" >>,
       << "h", "r" >>, << "h", "t", "m", "l" >>,
       << "i", "f", "r", "a", "m", "e" >>, << "i", "m", "g" >>,
       << "i", "n", "p", "u", "t" >>, << "k", "e", "y", "g", "e", "n" >>,
       << "l", "i" >>, << "l", "i", "n", "k" >>,
       << "l", "i", "s", "t", "i", "n", "g" >>, << "m", "a", "i", "n" >>,
       << "m", "a", "r", "q", "u", "e", "e" >>, << "m", "e", "n", "u" >>,
       << "m", "e", "t", "a" >>, << "n", "a", "v" >>,
       << "n", "o", "e", "m", "b", "e", "d" >>,
       << "n", "o", "f", "r", "a", "m", "e", "s" >>,
       << "n", "o", "s", "c", "r", "i", "p", "t" >>,
       << "o", "b", "j", "e", "c", "t" >>, << "o", "l" >>, << "p" >>,
       << "p", "a", "r", "a", "m" >>,
       << "p", "l", "a", "i", "n", "t", "e", "x", "t" >>, << "p", "r", "e" >>,
       << "s", "c", "r", "i", "p", "t" >>, << "s", "e", "a", "r", "c", "h" >>,
       << "s", "e", "c", "t", "i", "o", "n" >>,
       << "s", "e", "l", "e", "c", "t" >>, << "s", "o", "u", "r", "c", "e" >>,
       << "s", "t", "y", "l", "e" >>, << "s", "u", "m", "m", "a", "r", "y" >>,
       << "t", "a", "b", "l", "e" >>, << "t", "b", "o", "d", "y" >>,
       << "t", "d" >>, << "t", "e", "m", "p", "l", "a", "t", "e" >>,
       << "t", "e", "x", "t", "a", "r", "e", "a" >>,
       << "t", "f", "o", "o", "t" >>, << "t", "h" >>,
       << "t", "h", "e", "a", "d" >>, << "t", "i", "t", "l", "e" >>,
       << "t", "r" >>, << "t", "r", "a", "c", "k" >>, << "u", "l" >>,
       << "w", "b", "r" >>, << "x", "m", "p" >> }

\* the elements that end "has an element in scope"
ScopeMarkers ==
    { << "a", "p", "p", "l", "e", "t" >>,
       << "c", "a", "p", "t", "i", "o", "n" >>, << "h", "t", "m", "l" >>,
       << "t", "a", "b", "l", "e" >>, << "t", "d" >>, << "t", "h" >>,
       << "m", "a", "r", "q", "u", "e", "e" >>,
       << "o", "b", "j", "e", "c", "t" >>,
       << "t", "e", "m", "p", "l", "a", "t", "e" >> }

\* start tags that leave foreign (svg) content
BreakoutTags ==
    { << "b" >>, << "b", "i", "g" >>,
       << "b", "l", "o", "c", "k", "q", "u", "o", "t", "e" >>,
       << "b", "o", "d", "y" >>, << "b", "r" >>,
       << "c", "e", "n", "t", "e", "r" >>, << "c", "o", "d", "e" >>,
       << "d", "d" >>, << "d", "i", "v" >>, << "d", "l" >>, << "d", "t" >>,
       << "e", "m" >>, << "e", "m", "b", "e", "d" >>, << "h", "1" >>,
       << "h", "2" >>, << "h", "3" >>, << "h", "4" >>, << "h", "5" >>,
       << "h", "6" >>, << "h", "e", "a", "d" >>, << "h", "r" >>, << "i" >>,
       << "i", "m", "g" >>, << "l", "i" >>,
       << "l", "i", "s", "t", "i", "n", "g" >>, << "m", "e", "n", "u" >>,
       << "m", "e", "t", "a" >>, << "n", "o", "b", "r" >>, << "o", "l" >>,
       << "p" >>, << "p", "r", "e" >>, << "r", "u", "b", "y" >>, << "s" >>,
       << "s", "m", "a", "l", "l" >>, << "s", "p", "a", "n" >>,
       << "s", "t", "r", "o", "n", "g" >>, << "s", "t", "r", "i", "k", "e" >>,
       << "s", "u", "b" >>, << "s", "u", "p" >>, << "t", "a", "b", "l", "e" >>,
       << "t", "t" >>, << "u" >>, << "u", "l" >>, << "v", "a", "r" >> }


div == << "d", "i", "v" >>
p   == << "p" >>
li  == << "l", "i" >>
svg == << "s", "v", "g" >>

ButtonScopeMarkers == ScopeMarkers \cup { << "b", "u", "t", "t", "o", "n" >> }

ListItemScopeMarkers == ScopeMarkers \cup { << "o", "l" >>, << "u", "l" >> }

\* the svg elements that are scope markers and "special"
SvgIntegrationTags ==
    { << "f", "o", "r", "e", "i", "g", "n", "O", "b", "j", "e", "c", "t" >>,
      << "d", "e", "s", "c" >>, << "t", "i", "t", "l", "e" >> }

\* Element.tagName is upper case for an HTML element, as written otherwise
Element(localName, attributes, namespace) ==
    [nodeType   |-> 1,
     localName  |-> localName,
     tagName    |-> IF namespace = "html" THEN toUpperCase(localName) ELSE localName,
     namespace  |-> namespace,
     attributes |-> attributes,
     childNodes |-> << >>]

TextNode(data) == [nodeType |-> 3, data |-> data]

CommentNode(data) == [nodeType |-> 8, data |-> data]

\* The stack of open elements, the bottom (body) first.  An open element
\* holds the children it has so far and joins its parent when it is popped;
\* nothing is added to the parent while it is open, so the order is kept.
Top(stack) == stack[Len(stack)]

IsHTML(node, names) == node.namespace = "html" /\ node.localName \in names

IsSpecial(node) ==
    IF node.namespace = "html" THEN node.localName \in SpecialTags
    ELSE node.localName \in SvgIntegrationTags

IsMarker(node, markers) ==
    IF node.namespace = "html" THEN node.localName \in markers
    ELSE node.localName \in SvgIntegrationTags

AppendChild(stack, node) ==
    [stack EXCEPT ![Len(stack)].childNodes = Append(@, node)]

Push(stack, node) == Append(stack, node)

Pop(stack) ==
    IF Len(stack) <= 1 THEN stack
    ELSE AppendChild(SubSeq(stack, 1, Len(stack) - 1), Top(stack))

\* adjacent characters form one Text node
InsertCharacter(stack, c) ==
    LET kids == Top(stack).childNodes
    IN  IF kids # << >> /\ kids[Len(kids)].nodeType = 3
        THEN [stack EXCEPT ![Len(stack)].childNodes[Len(kids)].data = Append(@, c)]
        ELSE AppendChild(stack, TextNode(<< c >>))

RECURSIVE PopUntilPopped(_, _)
PopUntilPopped(stack, names) ==
    IF Len(stack) <= 1 THEN stack
    ELSE IF IsHTML(Top(stack), names) THEN Pop(stack)
    ELSE PopUntilPopped(Pop(stack), names)

\* pop every element from position i up
RECURSIVE PopTo(_, _)
PopTo(stack, i) ==
    IF Len(stack) < i \/ Len(stack) <= 1 THEN stack ELSE PopTo(Pop(stack), i)

RECURSIVE PopWhileForeign(_)
PopWhileForeign(stack) ==
    IF Len(stack) > 1 /\ Top(stack).namespace # "html"
    THEN PopWhileForeign(Pop(stack)) ELSE stack

RECURSIVE GenerateImpliedEndTags(_, _)
GenerateImpliedEndTags(stack, except) ==
    IF Len(stack) > 1 /\ IsHTML(Top(stack), ImpliedEndTags \ except)
    THEN GenerateImpliedEndTags(Pop(stack), except) ELSE stack

RECURSIVE HasInScopeFrom(_, _, _, _)
HasInScopeFrom(stack, i, names, markers) ==
    IF i < 1 THEN FALSE
    ELSE IF IsHTML(stack[i], names) THEN TRUE
    ELSE IF IsMarker(stack[i], markers) THEN FALSE
    ELSE HasInScopeFrom(stack, i - 1, names, markers)

HasInScope(stack, names, markers) == HasInScopeFrom(stack, Len(stack), names, markers)

ClosePElement(stack) == PopUntilPopped(GenerateImpliedEndTags(stack, { p }), { p })

ClosePInButtonScope(stack) ==
    IF HasInScope(stack, { p }, ButtonScopeMarkers) THEN ClosePElement(stack) ELSE stack

\* the loop of the start tag "li"
RECURSIVE CloseListItem(_, _)
CloseListItem(stack, i) ==
    IF IsHTML(stack[i], { li })
    THEN PopUntilPopped(GenerateImpliedEndTags(stack, { li }), { li })
    ELSE IF IsSpecial(stack[i])
            /\ ~IsHTML(stack[i], { << "a", "d", "d", "r", "e", "s", "s" >>, div, p })
    THEN stack
    ELSE IF i = 1 THEN stack
    ELSE CloseListItem(stack, i - 1)

\* 13.2.6.4.7 The "in body" insertion mode: a start tag.  A trailing "/" of
\* a tag that is not void is ignored: the element stays open.
InBodyStartTag(stack, tok) ==
    LET name == tok.tagName
        el   == Element(name, tok.attributes, "html")
    IN  CASE name \in ParserIgnoredTags -> stack
          [] name \in HeadingTags ->
                LET s1 == ClosePInButtonScope(stack)
                IN  Push(IF IsHTML(Top(s1), HeadingTags) THEN Pop(s1) ELSE s1, el)
          [] name = li ->
                Push(ClosePInButtonScope(CloseListItem(stack, Len(stack))), el)
          [] name = << "h", "r" >> -> Pop(Push(ClosePInButtonScope(stack), el))
          [] name \in ParserVoidTags -> Pop(Push(stack, el))
          [] name = svg ->
                LET s1 == Push(stack, Element(name, tok.attributes, "svg"))
                IN  IF tok.selfClosing THEN Pop(s1) ELSE s1
          [] name \in ClosePTags -> Push(ClosePInButtonScope(stack), el)
          [] OTHER -> Push(stack, el)

\* "any other end tag"
RECURSIVE AnyOtherEndTag(_, _, _)
AnyOtherEndTag(stack, name, i) ==
    IF IsHTML(stack[i], { name })
    THEN PopTo(GenerateImpliedEndTags(stack, { name }), i)
    ELSE IF IsSpecial(stack[i]) THEN stack
    ELSE IF i = 1 THEN stack
    ELSE AnyOtherEndTag(stack, name, i - 1)

\* the "in body" insertion mode: an end tag
InBodyEndTag(stack, tok) ==
    LET name == tok.tagName
    IN  CASE name = p ->
                IF HasInScope(stack, { p }, ButtonScopeMarkers)
                THEN ClosePElement(stack)
                ELSE Pop(Push(stack, Element(p, << >>, "html")))
          [] name = li ->
                IF HasInScope(stack, { li }, ListItemScopeMarkers)
                THEN PopUntilPopped(GenerateImpliedEndTags(stack, { li }), { li })
                ELSE stack
          [] name \in BlockEndTags ->
                IF HasInScope(stack, { name }, ScopeMarkers)
                THEN PopUntilPopped(GenerateImpliedEndTags(stack, { }), { name })
                ELSE stack
          [] name \in HeadingTags ->
                IF HasInScope(stack, HeadingTags, ScopeMarkers)
                THEN PopUntilPopped(GenerateImpliedEndTags(stack, { }), HeadingTags)
                ELSE stack
          [] name = << "b", "r" >> -> Pop(Push(stack, Element(name, << >>, "html")))
          [] OTHER -> AnyOtherEndTag(stack, name, Len(stack))

\* 13.2.6.5 The rules for parsing tokens in foreign content: an end tag
RECURSIVE ForeignEndTag(_, _, _)
ForeignEndTag(stack, tok, i) ==
    IF stack[i].namespace = "html" THEN InBodyEndTag(stack, tok)
    ELSE IF toLowerCase(stack[i].localName) = tok.tagName THEN PopTo(stack, i)
    ELSE ForeignEndTag(stack, tok, i - 1)

\* one step of tree construction
TreeConstruction(stack, tok) ==
    IF tok.type = "Character" THEN InsertCharacter(stack, tok.data)
    ELSE IF tok.type = "Comment" THEN AppendChild(stack, CommentNode(tok.data))
    ELSE IF Top(stack).namespace = "html"
    THEN IF tok.type = "StartTag" THEN InBodyStartTag(stack, tok)
         ELSE InBodyEndTag(stack, tok)
    ELSE IF tok.type = "StartTag"
    THEN IF tok.tagName \in BreakoutTags
         THEN InBodyStartTag(PopWhileForeign(stack), tok)
         ELSE LET s1 == Push(stack, Element(tok.tagName, tok.attributes, "svg"))
              IN  IF tok.selfClosing THEN Pop(s1) ELSE s1
    ELSE IF tok.tagName \in { p, << "b", "r" >> }
    THEN InBodyEndTag(PopWhileForeign(stack), tok)
    ELSE ForeignEndTag(stack, tok, Len(stack))

RECURSIVE Construct(_, _, _)
Construct(stack, tokens, k) ==
    IF k > Len(tokens) THEN stack
    ELSE Construct(TreeConstruction(stack, tokens[k]), tokens, k + 1)

\* dom.window.document.body of new JSDOM(text)
ParseBody(text) ==
    PopTo(Construct(<< Element(<< "b", "o", "d", "y" >>, << >>, "html") >>,
                    Tokenize(text, 1), 1), 2)[1]

(***************************************************************************)
(* DOM accessors used by the forward transcoder                            *)
(***************************************************************************)
\* the elements whose end tag the fragment serializer leaves out
SerializerVoidTags == ParserVoidTags \cup { << "c", "o", "l" >>, << "f", "r", "a", "m", "e" >> }

RECURSIVE EscapeForSerializer(_, _)
\* the escaping of Element.innerHTML: & always, " in attribute values,
\* < and > in text
EscapeForSerializer(s, inAttribute) ==
    IF s = << >> THEN << >>
    ELSE (CASE Head(s) = "&" -> << "&", "a", "m", "p", ";" >>
            [] Head(s) = "\"" /\ inAttribute -> << "&", "q", "u", "o", "t", ";" >>
            [] Head(s) = "<" /\ ~inAttribute -> << "&", "l", "t", ";" >>
            [] Head(s) = ">" /\ ~inAttribute -> << "&", "g", "t", ";" >>
            [] OTHER -> << Head(s) >>)
         \o EscapeForSerializer(Tail(s), inAttribute)

SerializeAttributes(attrs) ==
    Flatten([k \in DOMAIN attrs |->
        << " " >> \o attrs[k].name \o << "=", "\"" >>
            \o EscapeForSerializer(attrs[k].value, TRUE) \o << "\"" >>])

RECURSIVE innerHTML(_)
\* Element.innerHTML: the serialization of the children of node
innerHTML(node) ==
    Flatten([k \in DOMAIN node.childNodes |->
        LET child == node.childNodes[k]
        IN  CASE child.nodeType = 3 -> EscapeForSerializer(child.data, FALSE)
              [] child.nodeType = 8 ->
                    << "<", "!", "-", "-" >> \o child.data \o << "-", "-", ">" >>
              [] OTHER ->
                    << "<" >> \o child.localName \o SerializeAttributes(child.attributes)
                    \o << ">" >>
                    \o (IF IsHTML(child, SerializerVoidTags) THEN << >>
                        ELSE innerHTML(child) \o << "<", "/" >> \o child.localName
                             \o << ">" >>)])

RECURSIVE textContent(_)
\* Node.textContent: the data of a Text node, the concatenated text of the
\* descendants of an element
textContent(node) ==
    CASE node.nodeType = 3 -> node.data
      [] node.nodeType = 8 -> node.data
      [] OTHER ->
            Flatten([k \in DOMAIN node.childNodes |->
                IF node.childNodes[k].nodeType = 8 THEN << >>
                ELSE textContent(node.childNodes[k])])

(***************************************************************************)
(* Forward transcoder (htmlToBlocks.js)                                    *)
(***************************************************************************)
\* the voidElements array of nodeToBlock and of isVoidElement
voidElements ==
    << << "i", "m", "g" >>, << "b", "r" >>, << "h", "r" >>,
       << "i", "n", "p", "u", "t" >>, << "m", "e", "t", "a" >>,
       << "l", "i", "n", "k" >>, << "a", "r", "e", "a" >>,
       << "b", "a", "s", "e" >>, << "c", "o", "l" >>,
       << "e", "m", "b", "e", "d" >>, << "s", "o", "u", "r", "c", "e" >>,
       << "t", "r", "a", "c", "k" >>, << "w", "b", "r" >> >>

\* the containerElements array of nodeToBlock
containerElements ==
    << << "d", "i", "v" >>, << "s", "e", "c", "t", "i", "o", "n" >>,
       << "a", "r", "t", "i", "c", "l", "e" >>,
       << "h", "e", "a", "d", "e", "r" >>, << "f", "o", "o", "t", "e", "r" >>,
       << "m", "a", "i", "n" >>, << "n", "a", "v" >>,
       << "a", "s", "i", "d", "e" >>, << "u", "l" >>, << "o", "l" >>,
       << "l", "i" >>, << "f", "o", "r", "m" >>,
       << "f", "i", "e", "l", "d", "s", "e", "t" >>,
       << "b", "l", "o", "c", "k", "q", "u", "o", "t", "e" >>,
       << "f", "i", "g", "u", "r", "e" >>, << "b", "u", "t", "t", "o", "n" >> >>

\* Array.prototype.includes
Includes(array, x) == \E k \in DOMAIN array : array[k] = x

\* obj[name] = value on an object used as a map: a new name is added last,
\* a name the object has keeps its place and takes the new value
SetProperty(obj, name, value) ==
    IF \E k \in DOMAIN obj : obj[k].name = name
    THEN [k \in DOMAIN obj |->
            IF obj[k].name = name THEN [name |-> name, value |-> value] ELSE obj[k]]
    ELSE Append(obj, [name |-> name, value |-> value])

createBlock(name, attributes, innerBlocks) ==
    [name |-> name, isValid |-> TRUE, attributes |-> attributes,
     innerBlocks |-> innerBlocks]

hasChildElements(element) ==
    \E k \in DOMAIN element.childNodes : element.childNodes[k].nodeType = 1

hasTextContent(element) ==
    \E k \in DOMAIN element.childNodes :
        /\ element.childNodes[k].nodeType = 3
        /\ Trim(textContent(element.childNodes[k])) # << >>

class == << "c", "l", "a", "s", "s" >>
style == << "s", "t", "y", "l", "e" >>
dataStyle == << "d", "a", "t", "a", "-", "s", "t", "y", "l", "e" >>

\* the loop over node.attributes: [className, globalAttrs] after the
\* attributes from position k on
RECURSIVE ExtractAttributes(_, _, _, _)
ExtractAttributes(attrs, k, className, globalAttrs) ==
    IF k > Len(attrs) THEN [className |-> className, globalAttrs |-> globalAttrs]
    ELSE IF attrs[k].name = class
    THEN ExtractAttributes(attrs, k + 1, attrs[k].value, globalAttrs)
    ELSE IF attrs[k].name = style
    THEN ExtractAttributes(attrs, k + 1, className,
                           SetProperty(globalAttrs, dataStyle, attrs[k].value))
    ELSE ExtractAttributes(attrs, k + 1, className,
                           SetProperty(globalAttrs, attrs[k].name, attrs[k].value))

\* a detection that asks for text before it asks for child elements
DetectContentTypeTextFirst(node, tagName, config) ==
    IF SelfClosingIsTrue(config)
    THEN (IF "contentType" \in DOMAIN config THEN config.contentType ELSE "empty")
    ELSE IF Includes(voidElements, tagName) THEN "empty"
    ELSE IF tagName = svg THEN "html"
    ELSE IF hasTextContent(node) THEN "text"
    ELSE IF hasChildElements(node) /\ Includes(containerElements, tagName) THEN "blocks"
    ELSE IF hasChildElements(node) THEN "html"
    ELSE "empty"

\* the content type detection of nodeToBlock, before the children are
\* converted
DetectContentType(node, tagName, config) ==
    IF SelfClosingIsTrue(config)
    THEN (IF "contentType" \in DOMAIN config THEN config.contentType ELSE "empty")
    ELSE IF Includes(voidElements, tagName) THEN "empty"
    ELSE IF tagName = svg THEN "html"
    ELSE IF hasChildElements(node) /\ Includes(containerElements, tagName) THEN "blocks"
    ELSE IF hasChildElements(node) THEN "html"
    ELSE IF hasTextContent(node) THEN "text"
    ELSE "empty"

\* a conversion that keeps the blocks of the child nodes whatever the
\* content type is
ConvertChildrenAlways(isDynamicTag, contentType, children) ==
    SelectSeq(children, LAMBDA b : b # null)

\* the innerBlocks of an element: the blocks of its child nodes when the
\* detection took the container branch, none otherwise; children holds
\* nodeToBlock(childNode) for every child node
ConvertChildren(isDynamicTag, contentType, children) ==
    IF ~isDynamicTag /\ contentType = "blocks"
    THEN SelectSeq(children, LAMBDA b : b # null)
    ELSE << >>

RECURSIVE nodeToBlock(_)
nodeToBlock(node) ==
    IF node.nodeType = 3
    THEN LET text == Trim(textContent(node))
         IN  IF text = << >> THEN null
             ELSE createBlock("universal/element",
                    [blockName   |-> << "P" >>,
                     tagName     |-> p,
                     category    |-> "custom",
                     contentType |-> "text",
                     content     |-> text,
                     selfClosing |-> FALSE,
                     uiState     |-> [tagCategory |-> "custom",
                                      selectedTagName |-> p,
                                      selectedContentType |-> "text"]],
                    << >>)
    ELSE IF node.nodeType = 1
    THEN LET tagName      == toLowerCase(node.tagName)
             config       == getTagConfig(tagName)
             isDynamicTag == SelfClosingIsTrue(config)
             extracted    == ExtractAttributes(node.attributes, 1, << >>, << >>)
             className    == extracted.className
             globalAttrs  == extracted.globalAttrs
             isVoid       == Includes(voidElements, tagName)
             contentType  == DetectContentType(node, tagName, config)
             viaInnerHTML == ~isDynamicTag /\ ~isVoid /\ contentType = "html"
             viaText      == ~isDynamicTag /\ ~isVoid /\ contentType = "text"
             content      == IF viaInnerHTML THEN innerHTML(node)
                             ELSE IF viaText THEN textContent(node)
                             ELSE << >>
             children     == [k \in DOMAIN node.childNodes |->
                                 nodeToBlock(node.childNodes[k])]
             innerBlocks  == ConvertChildren(isDynamicTag, contentType, children)
             finalSelfClosing == IF HasSelfClosing(config) THEN config.selfClosing
                                 ELSE isVoid
             blockAttributes ==
                 [blockName   |-> << toUpperCaseChar(tagName[1]) >> \o Tail(tagName),
                  tagName     |-> tagName,
                  category    |-> "custom",
                  contentType |-> contentType,
                  selfClosing |-> finalSelfClosing,
                  globalAttrs |-> globalAttrs,
                  uiState     |-> [tagCategory |-> "custom",
                                   selectedTagName |-> tagName,
                                   selectedContentType |-> contentType]]
                 @@ (IF className # << >> THEN [className |-> className] ELSE << >>)
                 @@ (IF contentType \in { "text", "html" }
                     THEN [content |-> content] ELSE << >>)
         IN  createBlock("universal/element", blockAttributes, innerBlocks)
    ELSE null

\* the loop of parseHTMLToBlocks over container.childNodes
NodesToBlocks(nodes) ==
    SelectSeq([k \in DOMAIN nodes |-> nodeToBlock(nodes[k])], LAMBDA b : b # null)

\* new JSDOM(`<div>${text}</div>`).window.document.body.firstChild
Container(text) ==
    ParseBody(<< "<", "d", "i", "v", ">" >> \o text
              \o << "<", "/", "d", "i", "v", ">" >>).childNodes[1]

\* the html argument is a string in every call of the model
parseHTMLToBlocks(html) ==
    IF html = << >> THEN << >>
    ELSE LET processedHtml == ReplaceSelfClosing(html, 1)
             container     == Container(processedHtml)
         IN  NodesToBlocks(container.childNodes)

(***************************************************************************)
(* Reverse transcoder (blocksToHtml.js)                                    *)
(***************************************************************************)
\* const { field = default } = attributes
Field(attributes, field, default) ==
    IF field \in DOMAIN attributes THEN attributes[field] ELSE default

\* String.prototype.repeat
RECURSIVE Repeat(_, _)
Repeat(s, n) == IF n <= 0 THEN << >> ELSE s \o Repeat(s, n - 1)

\* s.split('\n').join('\n' + indentStr)
RECURSIVE SplitJoin(_, _)
SplitJoin(s, indentStr) ==
    IF s = << >> THEN << >>
    ELSE (IF Head(s) = "\n" THEN << "\n" >> \o indentStr ELSE << Head(s) >>)
         \o SplitJoin(Tail(s), indentStr)

isVoidElement(tagName) == Includes(voidElements, toLowerCase(tagName))

\* value.replace(/x/g, by) for a one-character x
RECURSIVE ReplaceAll(_, _, _)
ReplaceAll(value, x, by) ==
    IF value = << >> THEN << >>
    ELSE (IF Head(value) = x THEN by ELSE << Head(value) >>)
         \o ReplaceAll(Tail(value), x, by)

\* an escaping that replaces & last, and so escapes the entities it wrote
escapeAttributeAmpLast(value) ==
    LET quot == ReplaceAll(value, "\"", << "&", "q", "u", "o", "t", ";" >>)
        apos == ReplaceAll(quot, "'", << "&", "#", "x", "2", "7", ";" >>)
        lt   == ReplaceAll(apos, "<", << "&", "l", "t", ";" >>)
        gt   == ReplaceAll(lt, ">", << "&", "g", "t", ";" >>)
    IN  ReplaceAll(gt, "&", << "&", "a", "m", "p", ";" >>)

escapeAttribute(value) ==
    LET amp  == ReplaceAll(value, "&", << "&", "a", "m", "p", ";" >>)
        quot == ReplaceAll(amp, "\"", << "&", "q", "u", "o", "t", ";" >>)
        apos == ReplaceAll(quot, "'", << "&", "#", "x", "2", "7", ";" >>)
        lt   == ReplaceAll(apos, "<", << "&", "l", "t", ";" >>)
    IN  ReplaceAll(lt, ">", << "&", "g", "t", ";" >>)

\* name.replace(/[^a-zA-Z0-9\-_]/g, '')
escapeAttributeName(name) ==
    SelectSeq(name, LAMBDA c : c \in Letters \cup Digits \cup { "-", "_" })

\* a step that leaves out an entry whose name the name filter would change
EmitAttributeWellNamedOnly(entry) ==
    IF entry.name # << >> /\ entry.value # << >>
       /\ escapeAttributeName(entry.name) = entry.name
    THEN << " " >> \o entry.name \o << "=", "\"" >>
         \o escapeAttribute(entry.value) \o << "\"" >>
    ELSE << >>

\* one step of Object.entries(globalAttrs).forEach(...)
EmitAttribute(entry) ==
    IF entry.name # << >> /\ entry.value # << >>
    THEN << " " >> \o escapeAttributeName(entry.name) \o << "=", "\"" >>
         \o escapeAttribute(entry.value) \o << "\"" >>
    ELSE << >>

\* the attributes string of blockToHTML
BuildAttributesString(className, globalAttrs) ==
    (IF className # << >>
     THEN << " " >> \o class \o << "=", "\"" >> \o escapeAttribute(className)
          \o << "\"" >>
     ELSE << >>)
    \o Flatten([k \in DOMAIN globalAttrs |-> EmitAttribute(globalAttrs[k])])

\* a decision in which the stored flag of the block wins over the policy
shouldBeSelfClosingStoredFirst(tagName, selfClosing) ==
    LET config == getTagConfig(tagName)
    IN  selfClosing \/ isVoidElement(tagName)
           \/ (HasSelfClosing(config) /\ config.selfClosing)

\* the self-closing decision of blockToHTML
shouldBeSelfClosing(tagName, selfClosing) ==
    LET config == getTagConfig(tagName)
    IN  IF HasSelfClosing(config) THEN config.selfClosing
        ELSE selfClosing \/ isVoidElement(tagName)

\* a JavaScript value passed where an array is expected
JsArray(items) == [type |-> "array", items |-> items]

JsNull == [type |-> "null"]

JsUndefined == [type |-> "undefined"]

JsBoolean(b) == [type |-> "boolean", flag |-> b]

JsNumber(n) == [type |-> "number", number |-> n]

\* an object that is not an array
JsObject(object) == [type |-> "object", object |-> object]

JsString(chars) == [type |-> "string", chars |-> chars]

RECURSIVE blockToHTML(_, _, _)
RECURSIVE parseBlocksToHTML(_, _, _)

blockToHTML(block, pretty, indent) ==
    IF block = null \/ block.name # "universal/element" THEN << >>
    ELSE LET attributes   == block.attributes
             innerBlocks  == Field(block, "innerBlocks", << >>)
             tagName      == Field(attributes, "tagName", div)
             contentType  == Field(attributes, "contentType", "text")
             content      == Field(attributes, "content", << >>)
             selfClosing  == Field(attributes, "selfClosing", FALSE)
             globalAttrs  == Field(attributes, "globalAttrs", << >>)
             className    == Field(attributes, "className", << >>)
             attributesString == BuildAttributesString(className, globalAttrs)
             childHtml    == parseBlocksToHTML(JsArray(innerBlocks), pretty, indent + 1)
             innerContent ==
                 CASE contentType \in { "text", "html" } -> content
                   [] contentType = "blocks" ->
                        IF Len(innerBlocks) > 0
                        THEN IF pretty /\ childHtml # << >>
                             THEN << "\n" >> \o Repeat(<< " ", " " >>, indent + 1)
                                  \o SplitJoin(childHtml, Repeat(<< " ", " " >>, indent + 1))
                                  \o << "\n" >> \o Repeat(<< " ", " " >>, indent)
                             ELSE childHtml
                        ELSE << >>
                   [] OTHER -> << >>
             indentStr    == IF pretty THEN Repeat(<< " ", " " >>, indent) ELSE << >>
         IN  IF shouldBeSelfClosing(tagName, selfClosing)
             THEN indentStr \o << "<" >> \o tagName \o attributesString
                  \o << " ", "/", ">" >>
             ELSE indentStr \o << "<" >> \o tagName \o attributesString \o << ">" >>
                  \o innerContent \o << "<", "/" >> \o tagName \o << ">" >>

parseBlocksToHTML(blocks, pretty, indent) ==
    IF blocks.type # "array" THEN << >>
    ELSE Join([k \in DOMAIN blocks.items |->
                  blockToHTML(blocks.items[k], pretty, indent)],
              IF pretty THEN << "\n" >> ELSE << >>)

(***************************************************************************)
(* Markup serializer (blocksToWpMarkup.js)                                 *)
(***************************************************************************)
\* the characters of the words the transcoders store as contentType and
\* category
Characters(word) ==
    CASE word = "empty"  -> << "e", "m", "p", "t", "y" >>
      [] word = "text"   -> << "t", "e", "x", "t" >>
      [] word = "html"   -> << "h", "t", "m", "l" >>
      [] word = "blocks" -> << "b", "l", "o", "c", "k", "s" >>
      [] word = "custom" -> << "c", "u", "s", "t", "o", "m" >>

\* JSON.stringify of a string: quotes, with ", \ and the control characters
\* escaped
QuoteJSON(s) ==
    << "\"" >>
    \o Flatten([i \in DOMAIN s |->
          CASE s[i] = "\"" -> << "\\", "\"" >>
            [] s[i] = "\\" -> << "\\", "\\" >>
            [] s[i] = "\n" -> << "\\", "n" >>
            [] s[i] = "\t" -> << "\\", "t" >>
            [] OTHER       -> << s[i] >>])
    \o << "\"" >>

\* JSON.stringify of a boolean
BooleanJSON(b) ==
    IF b THEN << "t", "r", "u", "e" >> ELSE << "f", "a", "l", "s", "e" >>

\* JSON.stringify of an object given as its  "key":value  members
ObjectJSON(members) == << "{" >> \o Join(members, << "," >>) \o << "}" >>

\* one member of an object
Member(key, valueJSON) == QuoteJSON(key) \o << ":" >> \o valueJSON

\* JSON.stringify of globalAttrs: the entries in insertion order
GlobalAttrsJSON(globalAttrs) ==
    ObjectJSON([k \in DOMAIN globalAttrs |->
                   Member(globalAttrs[k].name, QuoteJSON(globalAttrs[k].value))])

\* JSON.stringify of uiState
UiStateJSON(uiState) ==
    ObjectJSON(<< Member(<< "t", "a", "g", "C", "a", "t", "e", "g", "o", "r", "y" >>,
                         QuoteJSON(Characters(uiState.tagCategory))),
                  Member(<< "s", "e", "l", "e", "c", "t", "e", "d", "T", "a", "g", "N", "a", "m", "e" >>,
                         QuoteJSON(uiState.selectedTagName)),
                  Member(<< "s", "e", "l", "e", "c", "t", "e", "d", "C", "o", "n", "t", "e", "n", "t", "T", "y", "p", "e" >>,
                         QuoteJSON(Characters(uiState.selectedContentType))) >>)

\* the keys of a block's attributes in insertion order: those of the object
\* literal of nodeToBlock for an element, then className and content; for
\* the block of a text node, which has no globalAttrs, those of its literal
KeyOrder(attributes) ==
    IF "globalAttrs" \in DOMAIN attributes
    THEN << "blockName", "tagName", "category", "contentType", "selfClosing",
            "globalAttrs", "uiState", "className", "content", "isDynamic",
            "elementType" >>
    ELSE << "blockName", "tagName", "category", "contentType", "content",
            "selfClosing", "uiState", "className", "isDynamic", "elementType" >>

\* the characters of a key
KeyCharacters(key) ==
    CASE key = "blockName"   -> << "b", "l", "o", "c", "k", "N", "a", "m", "e" >>
      [] key = "tagName"     -> << "t", "a", "g", "N", "a", "m", "e" >>
      [] key = "category"    -> << "c", "a", "t", "e", "g", "o", "r", "y" >>
      [] key = "contentType" -> << "c", "o", "n", "t", "e", "n", "t", "T", "y", "p", "e" >>
      [] key = "selfClosing" -> << "s", "e", "l", "f", "C", "l", "o", "s", "i", "n", "g" >>
      [] key = "globalAttrs" -> << "g", "l", "o", "b", "a", "l", "A", "t", "t", "r", "s" >>
      [] key = "uiState"     -> << "u", "i", "S", "t", "a", "t", "e" >>
      [] key = "className"   -> << "c", "l", "a", "s", "s", "N", "a", "m", "e" >>
      [] key = "content"     -> << "c", "o", "n", "t", "e", "n", "t" >>
      [] key = "isDynamic"   -> << "i", "s", "D", "y", "n", "a", "m", "i", "c" >>
      [] key = "elementType" -> << "e", "l", "e", "m", "e", "n", "t", "T", "y", "p", "e" >>

\* JSON.stringify of the value of one key of the attributes
ValueJSON(attributes, key) ==
    CASE key \in { "blockName", "tagName", "className", "content", "elementType" } ->
            QuoteJSON(attributes[key])
      [] key \in { "category", "contentType" } -> QuoteJSON(Characters(attributes[key]))
      [] key \in { "selfClosing", "isDynamic" } -> BooleanJSON(attributes[key])
      [] key = "globalAttrs" -> GlobalAttrsJSON(attributes[key])
      [] key = "uiState" -> UiStateJSON(attributes[key])

\* JSON.stringify(blockAttrs)
AttributesJSON(blockAttrs) ==
    LET keys == SelectSeq(KeyOrder(blockAttrs), LAMBDA key : key \in DOMAIN blockAttrs)
    IN  ObjectJSON([k \in DOMAIN keys |->
                       Member(KeyCharacters(keys[k]), ValueJSON(blockAttrs, keys[k]))])

\* blockAttrs at the end of blockToWPMarkup: the copy { ...attributes } with
\* isDynamic and elementType set when they are missing or falsy
BlockAttrs(attributes) ==
    LET withDynamic == IF Field(attributes, "isDynamic", FALSE) = FALSE
                       THEN [isDynamic |-> FALSE] @@ attributes
                       ELSE attributes
    IN  IF Field(withDynamic, "elementType", << >>) = << >>
        THEN [elementType |-> << "t", "e", "x", "t" >>] @@ withDynamic
        ELSE withDynamic

\* the attributes of the block had blockAttrs been the object of the block
\* and not a copy of it
AttributesAfterMarkupAliased(attributes) == BlockAttrs(attributes)

\* the attributes of the block after blockToWPMarkup: the writes go to the
\* copy, the object of the block is as it was
AttributesAfterMarkup(attributes) == attributes

WpOpen == << "<", "!", "-", "-", " ", "w", "p", ":", "u", "n", "i", "v", "e", "r", "s", "a", "l", "/", "e", "l", "e", "m", "e", "n", "t", " " >>

WpClose == << "<", "!", "-", "-", " ", "/", "w", "p", ":", "u", "n", "i", "v", "e", "r", "s", "a", "l", "/", "e", "l", "e", "m", "e", "n", "t", " ", "-", "-", ">" >>

\* an indentation of two spaces for a level
MarkupIndentOfTwo(indent) == Repeat(<< " ", " " >>, indent)

\* '    '.repeat(indent)
MarkupIndent(indent) == Repeat(<< " ", " ", " ", " " >>, indent)

\* a test that takes every block without inner blocks for self-closing,
\* whatever its content
isSelfClosingLeaf(attributes, innerBlocks) ==
    /\ Len(innerBlocks) = 0
    /\ Field(attributes, "contentType", "") \in { "empty", "text", "html" }

\* the isSelfClosing test of blockToWPMarkup
isSelfClosing(attributes, innerBlocks) ==
    /\ Len(innerBlocks) = 0
    /\ \/ Field(attributes, "contentType", "") = "empty"
       \/ /\ Field(attributes, "contentType", "") \in { "text", "html" }
          /\ Field(attributes, "content", << >>) = << >>

RECURSIVE blockToWPMarkup(_, _)
RECURSIVE parseBlocksToWPMarkup(_, _)

blockToWPMarkup(block, indent) ==
    IF block = null \/ block.name # "universal/element" THEN << >>
    ELSE LET \* { ...undefined } is {}: a block without attributes has none to copy
             attributes  == Field(block, "attributes", << >>)
             innerBlocks == Field(block, "innerBlocks", << >>)
             indentStr   == MarkupIndent(indent)
             attrsJson   == AttributesJSON(BlockAttrs(attributes))
         IN  IF isSelfClosing(attributes, innerBlocks)
             THEN indentStr \o WpOpen \o attrsJson \o << " ", "/", "-", "-", ">" >>
             ELSE indentStr \o WpOpen \o attrsJson \o << " ", "-", "-", ">" >>
                  \o (IF Len(innerBlocks) > 0
                      THEN << "\n" >>
                           \o parseBlocksToWPMarkup(JsArray(innerBlocks), indent + 1)
                           \o << "\n" >> \o indentStr \o WpClose
                      ELSE WpClose)

parseBlocksToWPMarkup(blocks, indent) ==
    IF blocks.type # "array" THEN << >>
    ELSE Join([k \in DOMAIN blocks.items |-> blockToWPMarkup(blocks.items[k], indent)],
              << "\n" >>)

(***************************************************************************)
(* How a call of a library function ends: it returns a value or it raises  *)
(* a TypeError (a property of undefined is read)                           *)
(***************************************************************************)
Returned(value) == [state |-> "returned", value |-> value]

Thrown == [state |-> "thrown", error |-> "TypeError"]

IsElementBlock(block) == block # null /\ block.name = "universal/element"

RECURSIVE RaisesInBlocksToHTML(_)
\* blockToHTML destructures attributes: a block without attributes raises;
\* the inner blocks are read under contentType blocks
RaisesInBlocksToHTML(items) ==
    \E k \in DOMAIN items :
        /\ IsElementBlock(items[k])
        /\ \/ "attributes" \notin DOMAIN items[k]
           \/ /\ Field(items[k].attributes, "contentType", "text") = "blocks"
              /\ RaisesInBlocksToHTML(Field(items[k], "innerBlocks", << >>))

RECURSIVE RaisesInBlocksToWPMarkup(_)
\* blockToWPMarkup reads attributes.contentType when the block has no inner
\* blocks; the inner blocks are read when there are any
RaisesInBlocksToWPMarkup(items) ==
    \E k \in DOMAIN items :
        /\ IsElementBlock(items[k])
        /\ IF Field(items[k], "innerBlocks", << >>) = << >>
           THEN "attributes" \notin DOMAIN items[k]
           ELSE RaisesInBlocksToWPMarkup(items[k].innerBlocks)

\* a reverse transcoder that raises for a value that is not an array
parseBlocksToHTMLCallStrict(value, opt) ==
    IF value.type # "array" THEN Thrown
    ELSE IF RaisesInBlocksToHTML(value.items) THEN Thrown
    ELSE Returned(parseBlocksToHTML(value, opt, 0))

\* parseBlocksToHTML(value, { pretty: opt })
parseBlocksToHTMLCall(value, opt) ==
    IF value.type = "array" /\ RaisesInBlocksToHTML(value.items) THEN Thrown
    ELSE Returned(parseBlocksToHTML(value, opt, 0))

\* parseBlocksToWPMarkup(value)
parseBlocksToWPMarkupCall(value) ==
    IF value.type = "array" /\ RaisesInBlocksToWPMarkup(value.items) THEN Thrown
    ELSE Returned(parseBlocksToWPMarkup(value, 0))

\* getTagConfig(value): toLowerCase is a method of strings only
getTagConfigCall(value) ==
    IF value.type # "string" THEN Thrown
    ELSE Returned(getTagConfig(value.chars))

\* the blocks after parseBlocksToWPMarkup has read them
RECURSIVE BlocksAfterMarkup(_)
BlocksAfterMarkup(bs) ==
    [k \in DOMAIN bs |->
        [bs[k] EXCEPT !.attributes = AttributesAfterMarkup(@),
                      !.innerBlocks = BlocksAfterMarkup(@)]]

(***************************************************************************)
(* The inputs: source documents and persisted block arrays                 *)
(***************************************************************************)
MaxPieces == 3

MaxAttributes == 2

MaxEntries == 2

\* the pieces a structure document is put together from: start and end tags,
\* text and white space
StructurePieces ==
    {
      \* <div>
      << "<", "d", "i", "v", ">" >>,
      \* </div>
      << "<", "/", "d", "i", "v", ">" >>,
      \* <p>
      << "<", "p", ">" >>,
      \* <li>
      << "<", "l", "i", ">" >>,
      \* <img src="a.png">
      << "<", "i", "m", "g", " ", "s", "r", "c", "=", "\"", "a", ".", "p",
         "n", "g", "\"", ">" >>,
      \* <svg>
      << "<", "s", "v", "g", ">" >>,
      \* <loop>
      << "<", "l", "o", "o", "p", ">" >>,
      \* </loop>
      << "<", "/", "l", "o", "o", "p", ">" >>,
      \* <set a="b" />
      << "<", "s", "e", "t", " ", "a", "=", "\"", "b", "\"", " ", "/",
         ">" >>,
      \* Hi
      << "H", "i" >>,
      \* -->
      << "-", "-", ">" >>,
      \*  
      << " " >> }

\* the attributes of an attribute document, as written in the source
AttributeTexts ==
    {
      \* class="a"
      << "c", "l", "a", "s", "s", "=", "\"", "a", "\"" >>,
      \* title="-->"
      << "t", "i", "t", "l", "e", "=", "\"", "-", "-", ">", "\"" >>,
      \* id="b"
      << "i", "d", "=", "\"", "b", "\"" >>,
      \* style="x"
      << "s", "t", "y", "l", "e", "=", "\"", "x", "\"" >>,
      \* data-style="y"
      << "d", "a", "t", "a", "-", "s", "t", "y", "l", "e", "=", "\"", "y",
         "\"" >>,
      \* hidden
      << "h", "i", "d", "d", "e", "n" >>,
      \* title=""
      << "t", "i", "t", "l", "e", "=", "\"", "\"" >>,
      \* a="b>c"
      << "a", "=", "\"", "b", ">", "c", "\"" >>,
      \* a="b/c"
      << "a", "=", "\"", "b", "/", "c", "\"" >> }

\* what follows the tag of an attribute document
Followers ==
    {
      \* 
      << >>,
      \* <p>Hi
      << "<", "p", ">", "H", "i" >> }

\* the names of the attribute-map entries of a persisted block: plain ones,
\* one with a space inside and one that is only a space
AttributeNames ==
    {
      \* id
      << "i", "d" >>,
      \* data-x
      << "d", "a", "t", "a", "-", "x" >>,
      \* a b
      << "a", " ", "b" >>,
      \*  
      << " " >> }

\* the values of the attribute-map entries of a persisted block
AttributeValues ==
    {
      \* 
      << >>,
      \* v
      << "v" >>,
      \* &"'<>
      << "&", "\"", "'", "<", ">" >>,
      \* -->
      << "-", "-", ">" >> }

\* the className values of a persisted block; the empty one stands for none
ClassNames ==
    {
      \* 
      << >>,
      \* a
      << "a" >>,
      \* "&
      << "\"", "&" >>,
      \* -->
      << "-", "-", ">" >> }

\* the tag names of a persisted block
PersistedTagNames ==
    {
      \* div
      << "d", "i", "v" >>,
      \* img
      << "i", "m", "g" >>,
      \* set
      << "s", "e", "t" >>,
      \* loop
      << "l", "o", "o", "p" >>,
      \* SET
      << "S", "E", "T" >> }

\* the sequences of at most n elements of set S
RECURSIVE SeqsUpTo(_, _)
SeqsUpTo(S, n) ==
    IF n = 0 THEN { << >> }
    ELSE LET shorter == SeqsUpTo(S, n - 1)
         IN  shorter \cup { Append(q, x) : q \in shorter, x \in S }

\* documents put together from at most MaxPieces pieces; the parser closes
\* at the end of the text what the document leaves open
StructureDocuments == { Flatten(ps) : ps \in SeqsUpTo(StructurePieces, MaxPieces) }

\* one to MaxAttributes different attributes, separated by a space
AttributeLists ==
    { Join(as, << " " >>) :
        as \in { q \in SeqsUpTo(AttributeTexts, MaxAttributes) :
                    /\ q # << >>
                    /\ \A i, j \in DOMAIN q : i # j => q[i] # q[j] } }

\* <div A>, <set A /> and <set A></set> for an attribute list A, then a follower
AttributeDocuments ==
    { << "<" >> \o form[1] \o << " " >> \o A \o form[2] \o f :
        form \in { << div, << ">" >> >>,
                   << << "s", "e", "t" >>, << " ", "/", ">" >> >>,
                   << << "s", "e", "t" >>, << ">", "<", "/", "s", "e", "t", ">" >> >> },
        A \in AttributeLists,
        f \in Followers }

Documents == StructureDocuments \cup AttributeDocuments

\* a block as JSON.parse returns it from a persisted array
PersistedBlock(tagName, contentType, content, selfClosing, className, globalAttrs, innerBlocks) ==
    [name        |-> "universal/element",
     isValid     |-> TRUE,
     attributes  |->
        [tagName |-> tagName, contentType |-> contentType,
         selfClosing |-> selfClosing, globalAttrs |-> globalAttrs]
        @@ (IF className # << >> THEN [className |-> className] ELSE << >>)
        @@ (IF contentType \in { "text", "html" } THEN [content |-> content]
            ELSE << >>),
     innerBlocks |-> innerBlocks]

Src == << [name |-> << "s", "r", "c" >>, value |-> << "a", ".", "p", "n", "g" >>] >>

LeafBlocks ==
    { PersistedBlock(p, "text", << "H", "i" >>, FALSE, << >>, << >>, << >>),
      PersistedBlock(<< "i", "m", "g" >>, "empty", << >>, TRUE, << >>, Src, << >>),
      PersistedBlock(p, "text", << "a", "\n", "b" >>, FALSE, << >>, << >>, << >>) }

\* the three payloads of a block: nothing, text, child blocks
Payloads ==
    { [contentType |-> "empty", content |-> << >>, innerBlocks |-> << >>],
      [contentType |-> "text", content |-> << "H", "i" >>, innerBlocks |-> << >>] }
    \cup { [contentType |-> "blocks", content |-> << >>, innerBlocks |-> << leaf >>] :
              leaf \in LeafBlocks }

\* blocks of every tag kind with either stored selfClosing flag and payload
StructureBlocks ==
    { PersistedBlock(t, q.contentType, q.content, sc, << >>, Src, q.innerBlocks) :
        t \in PersistedTagNames, sc \in BOOLEAN, q \in Payloads }

\* attribute maps of at most MaxEntries entries with different names
EntryLists ==
    { q \in SeqsUpTo([name : AttributeNames, value : AttributeValues], MaxEntries) :
        \A i, j \in DOMAIN q : i # j => q[i].name # q[j].name }

AttributeBlocks ==
    { PersistedBlock(div, "empty", << >>, FALSE, c, es, << >>) :
        c \in ClassNames, es \in EntryLists }

PersistedArrays ==
    { << b >> : b \in StructureBlocks \cup AttributeBlocks }
    \cup { << b, c >> : b \in StructureBlocks, c \in LeafBlocks }
    \cup { << PersistedBlock(div, "blocks", << >>, FALSE, << >>, << >>, << b >>) >> :
              b \in StructureBlocks }

\* blocks as a caller may pass them that the transcoders did not make: no
\* block at all, a block of another kind, a block without attributes
MalformedBlocks ==
    { null,
      [name |-> "core/paragraph", isValid |-> TRUE, attributes |-> [content |-> << "H", "i" >>],
       innerBlocks |-> << >>],
      [name |-> "universal/element", isValid |-> TRUE, innerBlocks |-> << >>] }
    \cup { [name |-> "universal/element", isValid |-> TRUE, innerBlocks |-> << leaf >>] :
              leaf \in LeafBlocks }

MalformedArrays ==
    { << b >> : b \in MalformedBlocks }
    \cup { << leaf, b >> : leaf \in LeafBlocks, b \in MalformedBlocks }
    \cup { << PersistedBlock(div, q, << >>, FALSE, << >>, << >>, << b >>) >> :
              q \in { "blocks", "empty" }, b \in MalformedBlocks }

MaxNumber == 2

\* the values a caller passes to a reverse function: values that are not
\* arrays (nothing, a flag, a number, a document or another text, one block
\* outside an array) and arrays
ReverseArguments ==
    { JsUndefined, JsNull }
    \cup { JsBoolean(b) : b \in BOOLEAN }
    \cup { JsNumber(n) : n \in 0 .. MaxNumber }
    \cup { JsString(d) : d \in AttributeLists }
    \cup { JsObject(b) : b \in StructureBlocks }
    \cup { JsArray(a) : a \in MalformedArrays }
    \cup { JsArray(<< b >>) : b \in StructureBlocks }

RECURSIVE CaseVariants(_)
\* word in every letter case
CaseVariants(word) ==
    IF word = << >> THEN { << >> }
    ELSE { << c >> \o rest :
             c \in { Head(word), toUpperCaseChar(Head(word)) },
             rest \in CaseVariants(Tail(word)) }

\* names that are no key of the table
OtherNames ==
    {
      \* div
      << "d", "i", "v" >>,
      \* sets
      << "s", "e", "t", "s" >>,
      \* se
      << "s", "e" >>,
      \* ifs
      << "i", "f", "s" >>,
      \* i f
      << "i", " ", "f" >>,
      \* 
      << >>,
      \* constructor
      << "c", "o", "n", "s", "t", "r", "u", "c", "t", "o", "r" >>,
      \* Constructor
      << "C", "o", "n", "s", "t", "r", "u", "c", "t", "o", "r" >>,
      \* __proto__
      << "_", "_", "p", "r", "o", "t", "o", "_", "_" >>,
      \* toString
      << "t", "o", "S", "t", "r", "i", "n", "g" >>,
      \* tostring
      << "t", "o", "s", "t", "r", "i", "n", "g" >>,
      \* hasOwnProperty
      << "h", "a", "s", "O", "w", "n", "P", "r", "o", "p", "e", "r", "t", "y" >>,
      \* valueOf
      << "v", "a", "l", "u", "e", "O", "f" >>,
      \* loops
      << "l", "o", "o", "p", "s" >>,
      \* i
      << "i" >> }

\* the tag names a caller looks up
LookupNames ==
    UNION { CaseVariants(key) : key \in DOMAIN tagConfigs } \cup OtherNames

\* the values a caller passes to getTagConfig
LookupArguments ==
    { JsString(name) : name \in LookupNames } \cup { JsUndefined, JsNull }

MaxFiles == 3

\* a file of a batch: whether it can be read, what it holds, whether its
\* output can be written
File(readable, content, writable) ==
    [readable |-> readable, content |-> content, writable |-> writable]

\* what an HTML file holds
HtmlContents ==
    {
      \* Hi
      [html |-> << "H", "i" >>],
      \* <hr>
      [html |-> << "<", "h", "r", ">" >>] }

\* what a JSON file holds: text that is no JSON, or the JSON of an array of
\* blocks, of one block outside an array, of an array with a block without
\* attributes
JsonContents ==
    { [valid |-> FALSE] }
    \cup { [valid |-> TRUE, value |-> v] :
             v \in { JsArray(<< PersistedBlock(p, "text", << "H", "i" >>, FALSE, << >>, << >>, << >>) >>),
                     JsObject(PersistedBlock(p, "text", << "H", "i" >>, FALSE, << >>, << >>, << >>)),
                     JsArray(<< [name |-> "universal/element", isValid |-> TRUE,
                                 innerBlocks |-> << >>] >>) } }

\* the files of a batch of contents cs: the good ones, one that cannot be
\* read, one whose output cannot be written
FilesOf(cs) ==
    { File(TRUE, c, TRUE) : c \in cs }
    \cup { File(r, CHOOSE c \in cs : TRUE, ~r) : r \in BOOLEAN }

(***************************************************************************)
(* The program: a document is converted to blocks (parseHTMLToBlocks), or  *)
(* a persisted block array is read; blocks are converted to HTML           *)
(* (parseBlocksToHTML) in compact or in pretty mode, or to block markup    *)
(* (parseBlocksToWPMarkup).  Besides, a caller calls one function of the   *)
(* library with a value of its choice, and the command line tool converts  *)
(* the files of a batch one after the other.                               *)
(***************************************************************************)
VARIABLES
    source,     \* "document" or "json": where the blocks come from
    html,       \* the source document
    blocks,     \* the block array
    pretty,     \* the pretty option of the reverse call
    output,     \* the text the reverse transcoder or the serializer returned
    pc,         \* "html": a document is read; "blocks": the blocks are there;
                \* "done": the HTML is written; "markup": the markup is written
    call,       \* the library function a caller calls
    arg,        \* the value the caller passes
    result,     \* how the call ended
    command,    \* the command of the command line tool
    phase,      \* "found": the files are found; "loop": the loop runs;
                \* "nofiles", "reported": the command has ended
    files,      \* the files the command found
    cursor,     \* the number of files the loop has handled
    attempt,    \* how the try block of the current file went: "none" before
                \* it has run, "written", "caught"
    successCount,
    errorCount,
    written     \* the positions in files of the files whose output is written

vars == << source, html, blocks, pretty, output, pc, call, arg, result, command, phase, files, cursor, attempt, successCount, errorCount, written >>

transcoderVars == << source, html, blocks, pretty, output, pc >>

apiVars == << call, arg, result >>

batchVars == << command, phase, files, cursor, attempt, successCount, errorCount, written >>

\* no conversion under way
TranscoderIdle ==
    /\ source = "none"
    /\ html = << >>
    /\ blocks = << >>
    /\ pretty = FALSE
    /\ output = << >>
    /\ pc = "idle"

\* no call of a caller under way
ApiIdle ==
    /\ call = "none"
    /\ arg = [type |-> "undefined"]
    /\ result = [state |-> "none"]

\* no command under way
BatchIdle ==
    /\ command = "none"
    /\ phase = "none"
    /\ attempt = "none"
    /\ files = << >>
    /\ cursor = 0
    /\ successCount = 0
    /\ errorCount = 0
    /\ written = { }

Init ==
    /\ ApiIdle
    /\ BatchIdle
    /\ pretty = FALSE
    /\ output = << >>
    /\ \/ /\ source = "document"
          /\ html \in Documents
          /\ blocks = << >>
          /\ pc = "html"
       \/ /\ source = "json"
          /\ html = << >>
          /\ blocks \in PersistedArrays
          /\ pc = "blocks"

\* const blocks = parseHTMLToBlocks(html)
HtmlToBlocks ==
    /\ pc = "html"
    /\ blocks' = parseHTMLToBlocks(html)
    /\ pc' = "blocks"
    /\ UNCHANGED << source, html, pretty, output, apiVars, batchVars >>

\* const html = parseBlocksToHTML(blocks, { pretty })
BlocksToHtml ==
    /\ pc = "blocks"
    /\ \E opt \in BOOLEAN :
          /\ pretty' = opt
          /\ output' = parseBlocksToHTML(JsArray(blocks), opt, 0)
    /\ pc' = "done"
    /\ UNCHANGED << source, html, blocks, apiVars, batchVars >>

Next == HtmlToBlocks \/ BlocksToHtml

Spec == Init /\ [][Next]_vars

\* const output = parseBlocksToWPMarkup(blocks)
BlocksToMarkup ==
    /\ pc = "blocks"
    /\ output' = parseBlocksToWPMarkup(JsArray(blocks), 0)
    /\ blocks' = BlocksAfterMarkup(blocks)
    /\ pc' = "markup"
    /\ UNCHANGED << source, html, pretty, apiVars, batchVars >>

MarkupNext == HtmlToBlocks \/ BlocksToHtml \/ BlocksToMarkup

\* the conversions with the markup output
MarkupSpec == Init /\ [][MarkupNext]_vars

\* a caller is about to call a function of the library with a value
ApiInit ==
    /\ TranscoderIdle
    /\ BatchIdle
    /\ result = [state |-> "pending"]
    /\ \/ call \in { "parseBlocksToHTML", "parseBlocksToWPMarkup" } /\ arg \in ReverseArguments
       \/ call = "getTagConfig" /\ arg \in LookupArguments

Pending(function) == call = function /\ result.state = "pending"

CallParseBlocksToHTML ==
    /\ Pending("parseBlocksToHTML")
    /\ \E opt \in BOOLEAN : result' = parseBlocksToHTMLCall(arg, opt)
    /\ UNCHANGED << call, arg, transcoderVars, batchVars >>

CallParseBlocksToWPMarkup ==
    /\ Pending("parseBlocksToWPMarkup")
    /\ result' = parseBlocksToWPMarkupCall(arg)
    /\ UNCHANGED << call, arg, transcoderVars, batchVars >>

CallGetTagConfig ==
    /\ Pending("getTagConfig")
    /\ result' = getTagConfigCall(arg)
    /\ UNCHANGED << call, arg, transcoderVars, batchVars >>

(***************************************************************************)
(* The commands html-to-blocks and blocks-to-html of the command line tool *)
(***************************************************************************)
\* the files are found: files = await glob(pattern) or [input]
BatchInit ==
    /\ TranscoderIdle
    /\ ApiIdle
    /\ phase = "found"
    /\ cursor = 0
    /\ attempt = "none"
    /\ successCount = 0
    /\ errorCount = 0
    /\ written = { }
    /\ \/ command = "html-to-blocks" /\ files \in SeqsUpTo(FilesOf(HtmlContents), MaxFiles)
       \/ command = "blocks-to-html" /\ files \in SeqsUpTo(FilesOf(JsonContents), MaxFiles)

\* the body of the try block for one file: "written" when every statement
\* up to writeFileSync has run, "caught" when one of them has raised; the
\* output of html-to-blocks is in the default format, the block markup
TryFile(cmd, file) ==
    IF ~file.readable THEN "caught"
    ELSE IF cmd = "html-to-blocks"
    THEN IF parseBlocksToWPMarkupCall(JsArray(parseHTMLToBlocks(file.content.html))).state
              = "thrown"
         THEN "caught"
         ELSE IF file.writable THEN "written" ELSE "caught"
    ELSE IF ~file.content.valid THEN "caught"
    ELSE IF parseBlocksToHTMLCall(file.content.value, FALSE).state = "thrown" THEN "caught"
    ELSE IF file.writable THEN "written" ELSE "caught"

\* if (files.length === 0) return
NoFiles ==
    /\ phase = "found"
    /\ files = << >>
    /\ phase' = "nofiles"
    /\ UNCHANGED << command, files, cursor, attempt, successCount, errorCount, written,
                    transcoderVars, apiVars >>

\* let successCount = 0; let errorCount = 0; for (const file of files)
StartLoop ==
    /\ phase = "found"
    /\ files # << >>
    /\ phase' = "loop"
    /\ UNCHANGED << command, files, cursor, attempt, successCount, errorCount, written,
                    transcoderVars, apiVars >>

\* the try block of one iteration up to writeFileSync: the file is read,
\* parsed and converted and the output is written, unless a statement raises
TryBlock ==
    /\ phase = "loop"
    /\ cursor < Len(files)
    /\ attempt = "none"
    /\ attempt' = TryFile(command, files[cursor + 1])
    /\ written' = IF attempt' = "written" THEN written \cup { cursor + 1 } ELSE written
    /\ UNCHANGED << command, phase, files, cursor, successCount, errorCount,
                    transcoderVars, apiVars >>

\* the end of the try block: successCount++
ConvertFile ==
    /\ phase = "loop"
    /\ attempt = "written"
    /\ successCount' = successCount + 1
    /\ cursor' = cursor + 1
    /\ attempt' = "none"
    /\ UNCHANGED << command, phase, files, errorCount, written, transcoderVars, apiVars >>

\* a catch block that ends the loop at the first failure
FailFileAndStop ==
    /\ phase = "loop"
    /\ attempt = "caught"
    /\ errorCount' = errorCount + 1
    /\ cursor' = Len(files)
    /\ attempt' = "none"
    /\ UNCHANGED << command, phase, files, successCount, written, transcoderVars, apiVars >>

\* the catch block: errorCount++, and the loop goes to the next file
FailFile ==
    /\ phase = "loop"
    /\ attempt = "caught"
    /\ errorCount' = errorCount + 1
    /\ cursor' = cursor + 1
    /\ attempt' = "none"
    /\ UNCHANGED << command, phase, files, successCount, written, transcoderVars, apiVars >>

\* after the loop: console.log(`Converted ${successCount} file(s)`)
Report ==
    /\ phase = "loop"
    /\ cursor = Len(files)
    /\ phase' = "reported"
    /\ UNCHANGED << command, files, cursor, attempt, successCount, errorCount, written,
                    transcoderVars, apiVars >>

BatchNext == NoFiles \/ StartLoop \/ TryBlock \/ ConvertFile \/ FailFile \/ Report

\* a command runs over the files it found
BatchSpec == BatchInit /\ [][BatchNext]_vars

\* the try block of the current file runs to its end, whatever the end is
TryBlockEnds ==
    /\ phase = "loop"
    /\ cursor < Len(files)
    /\ attempt = "none"
    /\ attempt' \in { "written", "caught" }
    /\ written' \in { written, written \cup { cursor + 1 } }
    /\ UNCHANGED << command, phase, files, cursor, successCount, errorCount,
                    transcoderVars, apiVars >>

\* the action of a command is one sequential function over synchronous file
\* operations: every statement it has reached is executed, until it returns
BatchLive ==
    /\ BatchInit
    /\ [][BatchNext]_vars
    /\ WF_vars(NoFiles)
    /\ WF_vars(StartLoop)
    /\ WF_vars(TryBlockEnds)
    /\ WF_vars(ConvertFile)
    /\ WF_vars(FailFile)
    /\ WF_vars(Report)

ApiNext == CallParseBlocksToHTML \/ CallParseBlocksToWPMarkup \/ CallGetTagConfig

\* the calls of a caller
ApiSpec == ApiInit /\ [][ApiNext]_vars

(***************************************************************************)
(* Definitions the properties share                                        *)
(***************************************************************************)
RECURSIVE AllBlocks(_)
\* the blocks of a block array at every depth
AllBlocks(bs) ==
    UNION { { bs[k] } \cup AllBlocks(bs[k].innerBlocks) : k \in DOMAIN bs }

\* the child nodes that are elements or text with something but white space
Surviving(nodes) ==
    SelectSeq(nodes, LAMBDA n :
        n.nodeType = 1 \/ (n.nodeType = 3 /\ Trim(n.data) # << >>))

RECURSIVE Aligned(_, _)
\* the block array bs has one block per surviving node of nodes, at every
\* depth where a block holds child blocks
Aligned(nodes, bs) ==
    LET ns == Surviving(nodes)
    IN  /\ Len(ns) = Len(bs)
        /\ \A k \in DOMAIN ns :
              bs[k].innerBlocks # << >> =>
                 /\ ns[k].nodeType = 1
                 /\ Aligned(ns[k].childNodes, bs[k].innerBlocks)

RECURSIVE NodeBlockPairs(_, _)
\* the pairs << node, block >> of an aligned node list and block array
NodeBlockPairs(nodes, bs) ==
    LET ns == Surviving(nodes)
    IN  UNION { { << ns[k], bs[k] >> }
                \cup (IF bs[k].innerBlocks # << >>
                      THEN NodeBlockPairs(ns[k].childNodes, bs[k].innerBlocks)
                      ELSE { }) : k \in DOMAIN ns }

\* the DOM the forward transcoder walked to build the blocks of this state
WalkedNodes == Container(ReplaceSelfClosing(html, 1)).childNodes

Converted == source = "document" /\ pc # "html"

ElementPairs ==
    { nb \in NodeBlockPairs(WalkedNodes, blocks) : nb[1].nodeType = 1 }

\* the value of attribute name in an attribute list or map, << >> if none
ValueOf(attrs, name) ==
    IF \E k \in DOMAIN attrs : attrs[k].name = name
    THEN attrs[CHOOSE k \in DOMAIN attrs : attrs[k].name = name].value
    ELSE << >>

HasName(attrs, name) == \E k \in DOMAIN attrs : attrs[k].name = name

NameChars == Letters \cup Digits \cup { "-", "_" }

(***************************************************************************)
(* C1  Round trip                                                          *)
(***************************************************************************)
RECURSIVE Shape(_)
\* tag names, attribute sets and nesting of a node list; white space between
\* the nodes is left out
Shape(nodes) ==
    LET ns == Surviving(nodes)
    IN  [k \in DOMAIN ns |->
            IF ns[k].nodeType = 3 THEN [text |-> Trim(ns[k].data)]
            ELSE [tag   |-> ns[k].localName,
                  attrs |-> { << a.name, a.value >> : a \in Range(ns[k].attributes) },
                  kids  |-> Shape(ns[k].childNodes)]]

\* a plain attribute: a name of letters, digits, "-" and "_" that is not the
\* remapped style
PlainAttribute(a) ==
    /\ a.name # << >>
    /\ \A i \in DOMAIN a.name : a.name[i] \in NameChars
    /\ a.name # style

RECURSIVE ElementOnly(_)
\* only elements of the container set with plain attributes, at every depth
ElementOnly(nodes) ==
    \A k \in DOMAIN nodes :
        /\ nodes[k].nodeType = 1
        /\ nodes[k].namespace = "html"
        /\ Includes(containerElements, nodes[k].localName)
        /\ \A a \in Range(nodes[k].attributes) : PlainAttribute(a)
        /\ ElementOnly(nodes[k].childNodes)

\* C1: the reverse of the forward of an element-only document of container
\* tags with plain attributes has the tag names, attribute sets and nesting
\* of the document.
RoundTripKeepsStructure ==
    (pc = "done" /\ source = "document" /\ ElementOnly(Container(html).childNodes))
        => Shape(Container(output).childNodes) = Shape(Container(html).childNodes)

(***************************************************************************)
(* C2  Tag Policy entries decide content type and self-closing flag        *)
(***************************************************************************)
\* C2: every element whose tag has a Tag Policy entry gets its contentType
\* and selfClosing flag from the entry; when the entry says blocks, its
\* children are the blocks of its child nodes.
PolicyDecidesForward ==
    Converted =>
        /\ Aligned(WalkedNodes, blocks)
        /\ \A nb \in ElementPairs :
              LET config == getTagConfig(nb[1].localName)
                  attrs  == nb[2].attributes
              IN  config # null =>
                     /\ attrs.contentType = config.contentType
                     /\ attrs.selfClosing = config.selfClosing
                     /\ config.contentType = "blocks" =>
                            nb[2].innerBlocks = NodesToBlocks(nb[1].childNodes)

(***************************************************************************)
(* C3  Self-closing normalization of dynamic tags                          *)
(***************************************************************************)
RECURSIVE ExplicitForm(_, _)
\* the text s from position i on with every start tag written <tag ... />
\* whose policy says self-closing rewritten to <tag ...></tag>; the end of a
\* tag is where the tokenizer finds it, so a ">" or "/" inside a quoted
\* attribute value does not end the tag
ExplicitForm(s, i) ==
    IF i > Len(s) THEN << >>
    ELSE IF s[i] = "<" /\ i + 1 <= Len(s) /\ s[i + 1] \in Letters
    THEN LET nameEnd == IndexOfAny(s, i + 1, WhiteSpace \cup { "/", ">" })
             name    == SubSeq(s, i + 1, nameEnd - 1)
             t       == AttributeStates(s, nameEnd, << >>)
         IN  IF t.eof THEN SubSeq(s, i, Len(s))
             ELSE IF SelfClosingIsTrue(getTagConfig(name)) /\ s[t.next - 2] = "/"
             THEN SubSeq(s, i, t.next - 3) \o << ">", "<", "/" >> \o name \o << ">" >>
                  \o ExplicitForm(s, t.next)
             ELSE SubSeq(s, i, t.next - 1) \o ExplicitForm(s, t.next)
    ELSE << s[i] >> \o ExplicitForm(s, i + 1)

\* C3: a document yields the block tree of the document with its <set A />
\* tags written <set A></set>, whatever the attribute values hold.
SelfClosingFormIsNormalized ==
    Converted => blocks = parseHTMLToBlocks(ExplicitForm(html, 1))

(***************************************************************************)
(* C4  Attribute remap                                                     *)
(***************************************************************************)
\* C4: an element with a style attribute yields a data-style entry with the
\* style value and no entry named style; every attribute but class and style
\* is an entry under its own name with its own value.
StyleIsRemapped ==
    Converted =>
        /\ Aligned(WalkedNodes, blocks)
        /\ \A nb \in ElementPairs :
              LET attrs == nb[1].attributes
                  map   == nb[2].attributes.globalAttrs
              IN  /\ HasName(attrs, style) =>
                        /\ HasName(map, dataStyle)
                        /\ ValueOf(map, dataStyle) = ValueOf(attrs, style)
                  /\ ~HasName(map, style)
                  /\ \A a \in Range(attrs) :
                        a.name \notin { class, style } =>
                            HasName(map, a.name) /\ ValueOf(map, a.name) = a.value

(***************************************************************************)
(* C5  Classification of an element without a Tag Policy entry             *)
(***************************************************************************)
HasElementChild(n) == \E k \in DOMAIN n.childNodes : n.childNodes[k].nodeType = 1

HasVisibleText(n) ==
    \E k \in DOMAIN n.childNodes :
        /\ n.childNodes[k].nodeType = 3
        /\ \E i \in DOMAIN n.childNodes[k].data : n.childNodes[k].data[i] \notin WhiteSpace

\* the text of the Text children of n, one after the other
OwnText(n) ==
    Flatten([k \in DOMAIN n.childNodes |->
        IF n.childNodes[k].nodeType = 3 THEN n.childNodes[k].data ELSE << >>])

\* the content type the priority order of the specification gives element n
ExpectedContentType(n) ==
    IF Includes(voidElements, n.localName) THEN "empty"
    ELSE IF n.localName = svg THEN "html"
    ELSE IF HasElementChild(n) /\ Includes(containerElements, n.localName) THEN "blocks"
    ELSE IF HasElementChild(n) THEN "html"
    ELSE IF HasVisibleText(n) THEN "text"
    ELSE "empty"

\* C5: an element without a Tag Policy entry is classified in the priority
\* order void, svg, container with an element child, element child, text,
\* empty; html carries the inner markup, text the untrimmed text, blocks the
\* blocks of the child nodes; selfClosing is true exactly for a void tag.
ClassifiedByStructure ==
    Converted =>
        /\ Aligned(WalkedNodes, blocks)
        /\ \A nb \in ElementPairs :
              LET n == nb[1]
                  a == nb[2].attributes
              IN  getTagConfig(n.localName) = null =>
                     /\ a.contentType = ExpectedContentType(n)
                     /\ a.selfClosing = Includes(voidElements, n.localName)
                     /\ a.contentType = "html" => a.content = innerHTML(n)
                     /\ a.contentType = "text" => a.content = OwnText(n)
                     /\ a.contentType \in { "empty", "blocks" } => "content" \notin DOMAIN a
                     /\ nb[2].innerBlocks =
                            IF a.contentType = "blocks" THEN NodesToBlocks(n.childNodes)
                            ELSE << >>

\* a container that has text and an element child became a blocks node whose
\* text child is a block of its own
ClassifiedByStructureWitness ==
    /\ Converted
    /\ \E nb \in ElementPairs :
          /\ getTagConfig(nb[1].localName) = null
          /\ HasElementChild(nb[1])
          /\ HasVisibleText(nb[1])
          /\ nb[2].attributes.contentType = "blocks"
          /\ Len(nb[2].innerBlocks) >= 2

(***************************************************************************)
(* C6  Payload exclusivity                                                 *)
(***************************************************************************)
\* C6: in every tree parseHTMLToBlocks returns, a block has content only as
\* text or html, child blocks only as blocks, and never both.
PayloadIsExclusive ==
    Converted =>
        \A b \in AllBlocks(blocks) :
            LET content == Field(b.attributes, "content", << >>)
            IN  /\ content # << >> => b.attributes.contentType \in { "text", "html" }
                /\ b.innerBlocks # << >> => b.attributes.contentType = "blocks"
                /\ ~(content # << >> /\ b.innerBlocks # << >>)

\* a blocks node that holds a text child and, next to it, an html node
PayloadIsExclusiveWitness ==
    /\ Converted
    /\ \E b \in AllBlocks(blocks) :
          /\ b.innerBlocks # << >>
          /\ \E k \in DOMAIN b.innerBlocks :
                Field(b.innerBlocks[k].attributes, "content", << >>) # << >>
    /\ \E b \in AllBlocks(blocks) : b.attributes.contentType = "html"

(***************************************************************************)
(* Reading the reverse output                                              *)
(***************************************************************************)
\* the blocks of this state with the HTML text the reverse transcoder gives
\* for each: the output itself for the block of a one-block array, the
\* result of blockToHTML for every block at every depth
Rendered ==
    { << b, blockToHTML(b, FALSE, 0) >> : b \in AllBlocks(blocks) }
    \cup (IF pc = "done" /\ Len(blocks) = 1 THEN { << blocks[1], output >> } ELSE { })

TagNameOf(b) == Field(b.attributes, "tagName", div)

\* className first, then the entries of the attribute map
Candidates(b) ==
    (IF Field(b.attributes, "className", << >>) # << >>
     THEN << [name |-> class, value |-> b.attributes.className] >> ELSE << >>)
    \o Field(b.attributes, "globalAttrs", << >>)

\* what stands between "<tag" and the ">" or " />" that ends the start tag
TagAttrText(text, tagName) ==
    LET from == Len(tagName) + 2
        gt   == IndexOfAny(text, from, { ">" })
    IN  IF gt - 2 >= from /\ text[gt - 1] = "/" /\ text[gt - 2] = " "
        THEN SubSeq(text, from, gt - 3)
        ELSE SubSeq(text, from, gt - 1)

RECURSIVE ScanPairs(_, _)
\* s from position i on read as a run of  name="value"  pairs, each after one
\* space; ok is FALSE when s is not such a run
ScanPairs(s, i) ==
    IF i > Len(s) THEN [ok |-> TRUE, pairs |-> << >>]
    ELSE IF s[i] # " " THEN [ok |-> FALSE, pairs |-> << >>]
    ELSE LET eq    == IndexOfAny(s, i + 1, { "=" })
             close == IndexOfAny(s, eq + 2, { "\"" })
         IN  IF eq + 1 > Len(s) \/ s[eq + 1] # "\"" \/ close > Len(s)
             THEN [ok |-> FALSE, pairs |-> << >>]
             ELSE LET rest == ScanPairs(s, close + 1)
                  IN  [ok    |-> rest.ok,
                       pairs |-> << [name  |-> SubSeq(s, i + 1, eq - 1),
                                     value |-> SubSeq(s, eq + 2, close - 1)] >>
                                 \o rest.pairs]

EmittedPairs(r) == ScanPairs(TagAttrText(r[2], TagNameOf(r[1])), 1)

StartsWith(s, t) == StartsWithAt(s, 1, t)

EndsWith(s, t) == Len(t) <= Len(s) /\ StartsWithAt(s, Len(s) - Len(t) + 1, t)

(***************************************************************************)
(* C7  Self-closing resolution in the reverse transcoder                   *)
(***************************************************************************)
\* the decision the claim describes: the policy entry if there is one, else
\* the stored flag or a void tag
DecidedSelfClosing(b) ==
    LET tag == toLowerCase(TagNameOf(b))
    IN  IF tag \in DOMAIN tagConfigs THEN tagConfigs[tag].selfClosing
        ELSE Field(b.attributes, "selfClosing", FALSE) \/ tag \in Range(voidElements)

ImgDocument ==
    << "<", "i", "m", "g", " ", "s", "r", "c", "=", "\"", "a", ".", "p", "n", "g", "\"", ">" >>

ImgEmitted ==
    << "<", "i", "m", "g", " ", "s", "r", "c", "=", "\"", "a", ".", "p", "n", "g", "\"",
       " ", "/", ">" >>

\* C7: a block is emitted <tag attrs /> when its tag's policy entry says
\* self-closing or, without an entry, when its stored flag is true or its tag
\* is void, and <tag attrs>inner</tag> otherwise; <img src="a.png"> comes
\* back as <img src="a.png" />.
SelfClosingIsResolved ==
    /\ \A r \in Rendered :
          LET tag   == TagNameOf(r[1])
              open  == << "<" >> \o tag
                       \o BuildAttributesString(Field(r[1].attributes, "className", << >>),
                                                Field(r[1].attributes, "globalAttrs", << >>))
              close == << "<", "/" >> \o tag \o << ">" >>
          IN  IF DecidedSelfClosing(r[1])
              THEN r[2] = open \o << " ", "/", ">" >>
              ELSE /\ StartsWith(r[2], open \o << ">" >>)
                   /\ EndsWith(r[2], close)
                   /\ Len(r[2]) >= Len(open) + 1 + Len(close)
    /\ (pc = "done" /\ html = ImgDocument) => output = ImgEmitted

\* a set block stored as not self-closing, with text, is emitted <set ... />
SelfClosingIsResolvedWitness ==
    /\ pc = "done"
    /\ source = "json"
    /\ Len(blocks) = 1
    /\ TagNameOf(blocks[1]) = << "s", "e", "t" >>
    /\ blocks[1].attributes.selfClosing = FALSE
    /\ blocks[1].attributes.contentType = "text"
    /\ EndsWith(output, << "\"", " ", "/", ">" >>)

(***************************************************************************)
(* C8  Attribute sanitisation                                              *)
(***************************************************************************)
\* every &, ", ', < and > of value replaced by its entity, character by
\* character
EntityEncoded(value) ==
    Flatten([i \in DOMAIN value |->
        IF \E k \in DOMAIN CharRefs : CharRefs[k].char = value[i]
        THEN CharRefs[CHOOSE k \in DOMAIN CharRefs : CharRefs[k].char = value[i]].ref
        ELSE << value[i] >>])

\* C8: the attribute string of every emitted tag is a run of name="value"
\* pairs; every value is the entity-encoded value of className or of a map
\* entry, holds no raw ", ', < or > and decodes to that value; every name
\* holds only characters of [A-Za-z0-9_-].
AttributesAreSanitised ==
    \A r \in Rendered :
        LET scan == EmittedPairs(r)
        IN  /\ scan.ok
            /\ \A pair \in Range(scan.pairs) :
                  /\ \A i \in DOMAIN pair.name : pair.name[i] \in NameChars
                  /\ \A i \in DOMAIN pair.value : pair.value[i] \notin { "\"", "'", "<", ">" }
                  /\ \E c \in Range(Candidates(r[1])) :
                        /\ pair.value = EntityEncoded(c.value)
                        /\ DecodeCharRefs(pair.value, 1) = c.value

SpecialValue == << "&", "\"", "'", "<", ">" >>

\* a block whose className and whose entry hold the characters to escape
AttributesAreSanitisedWitness ==
    /\ pc = "done"
    /\ Len(blocks) = 1
    /\ Field(blocks[1].attributes, "className", << >>) = << "\"", "&" >>
    /\ \E e \in Range(blocks[1].attributes.globalAttrs) :
          e.value = SpecialValue /\ e.name = << "a", " ", "b" >>
    /\ Len(EmittedPairs(<< blocks[1], output >>).pairs) >= 2

(***************************************************************************)
(* C9  An attribute whose name holds a space                               *)
(***************************************************************************)
HasSpace(name) == \E i \in DOMAIN name : name[i] = " "

\* the reverse transcoder has just run on a one-block array
Reversed == pc = "blocks" /\ pc' = "done" /\ Len(blocks) = 1

\* C9 as stated: an entry whose name holds a space is left out of the
\* output, so every emitted attribute stems from className or from an entry
\* without a space in its name, and the attribute map is as it was.
SpaceNamedEntryIsDropped ==
    [][Reversed =>
          /\ blocks' = blocks
          /\ \A emitted \in { ScanPairs(TagAttrText(output', TagNameOf(blocks[1])), 1) } :
                 /\ emitted.ok
                 /\ \A pair \in Range(emitted.pairs) :
                       \E c \in Range(Candidates(blocks[1])) :
                           /\ ~HasSpace(c.name)
                           /\ pair.name = c.name
                           /\ DecodeCharRefs(pair.value, 1) = c.value]_vars

\* the characters of name that are in [A-Za-z0-9_-]
NameFiltered(name) == SelectSeq(name, LAMBDA ch : ch \in NameChars)

\* C9: an entry whose name holds a space and whose value is not empty is
\* emitted under its name without the characters outside [A-Za-z0-9_-],
\* with its value escaped, and the attribute map is as it was.
SpaceNamedEntryIsRenamed ==
    [][Reversed =>
          /\ blocks' = blocks
          /\ \A emitted \in { ScanPairs(TagAttrText(output', TagNameOf(blocks[1])), 1) } :
                 /\ emitted.ok
                 /\ \A e \in Range(Field(blocks[1].attributes, "globalAttrs", << >>)) :
                       (HasSpace(e.name) /\ e.value # << >>) =>
                           \E pair \in Range(emitted.pairs) :
                               /\ pair.name = NameFiltered(e.name)
                               /\ pair.value = EntityEncoded(e.value)]_vars

\* the entry "a b" with the value v has been emitted as ab="v"
SpaceNamedEntryIsRenamedWitness ==
    /\ pc = "done"
    /\ Len(blocks) = 1
    /\ \E e \in Range(blocks[1].attributes.globalAttrs) :
          e.name = << "a", " ", "b" >> /\ e.value = << "v" >>
    /\ \E pair \in Range(EmittedPairs(<< blocks[1], output >>).pairs) :
          pair.name = << "a", "b" >> /\ pair.value = << "v" >>

(***************************************************************************)
(* C10  The attribute string                                               *)
(***************************************************************************)
\* C10: the attribute string is class, when className is not empty, then
\* one attribute for every entry of the map in the order of the map, the
\* entries with an empty value included.
EveryEntryIsEmitted ==
    \A r \in Rendered :
        LET scan == EmittedPairs(r)
            from == Candidates(r[1])
        IN  /\ scan.ok
            /\ Len(scan.pairs) = Len(from)
            /\ \A k \in DOMAIN scan.pairs :
                  /\ scan.pairs[k].name = NameFiltered(from[k].name)
                  /\ DecodeCharRefs(scan.pairs[k].value, 1) = from[k].value

(***************************************************************************)
(* Reading the markup output                                               *)
(***************************************************************************)
\* the blocks of this state with the markup the serializer gives for each
RenderedMarkup ==
    { << b, blockToWPMarkup(b, 0) >> : b \in AllBlocks(blocks) }
    \cup (IF pc = "markup" /\ Len(blocks) = 1 THEN { << blocks[1], output >> } ELSE { })

\* the number of places of s at which t stands
CountOf(s, t) == Cardinality({ i \in DOMAIN s : StartsWithAt(s, i, t) })

CommentStart == << "<", "!", "-", "-" >>

CommentEnd == << "-", "-", ">" >>

\* the lines of s: what stands between two line breaks, before the first
\* and after the last
Lines(s) ==
    LET breaks == { i \in DOMAIN s : s[i] = "\n" }
        \* the position of the k-th line break; 0 and Len(s) + 1 bound the text
        at(k)  == IF k = 0 THEN 0
                  ELSE IF k > Cardinality(breaks) THEN Len(s) + 1
                  ELSE CHOOSE i \in breaks : Cardinality({ j \in breaks : j < i }) = k - 1
    IN  [k \in 1 .. Cardinality(breaks) + 1 |-> SubSeq(s, at(k - 1) + 1, at(k) - 1)]

ContentOf(b) == Field(b.attributes, "content", << >>)

ContentTypeOf(b) == Field(b.attributes, "contentType", "")

\* the payload exclusivity of one block
Exclusive(b) ==
    /\ ContentOf(b) # << >> => ContentTypeOf(b) \in { "text", "html" }
    /\ b.innerBlocks # << >> => ContentTypeOf(b) = "blocks"

(***************************************************************************)
(* C11  The form of a serialized block                                     *)
(***************************************************************************)
\* the case in which the claim expects one self-closing comment
ExpectedSelfClosingComment(b) ==
    \/ b.innerBlocks = << >> /\ ContentTypeOf(b) = "empty"
    \/ ContentTypeOf(b) \in { "text", "html" } /\ ContentOf(b) = << >>

TextLeafIsOneComment ==
    \A r \in RenderedMarkup :
        (/\ source = "document"
         /\ ContentTypeOf(r[1]) = "text"
         /\ ContentOf(r[1]) # << >>
         /\ r[1].innerBlocks = << >>) =>
            /\ StartsWith(r[2], WpOpen)
            /\ EndsWith(r[2], << "}", " ", "/", "-", "-", ">" >>)
            /\ CountOf(r[2], Member(<< "c", "o", "n", "t", "e", "n", "t" >>,
                                    QuoteJSON(ContentOf(r[1])))) = 1
            /\ CountOf(r[2], WpClose) = 0

(***************************************************************************)
(* C13  Nesting and indentation of the markup output                       *)
(***************************************************************************)
RECURSIVE ExpectedMarkupLines(_, _)
\* the lines the claim expects for the blocks bs at depth d: for a block
\* with children its opening line, the lines of the children one level
\* deeper and its closing line; for any other block its one line
ExpectedMarkupLines(bs, d) ==
    Flatten([k \in DOMAIN bs |->
        IF bs[k].innerBlocks = << >>
        THEN << [kind |-> "single", depth |-> d, block |-> bs[k]] >>
        ELSE << [kind |-> "opening", depth |-> d, block |-> bs[k]] >>
             \o ExpectedMarkupLines(bs[k].innerBlocks, d + 1)
             \o << [kind |-> "closing", depth |-> d, block |-> bs[k]] >>])

\* the number of spaces a line starts with
LeadingSpaces(line) == IndexOfNone(line, 1, { " " }) - 1

NonArrayCallEnded ==
    /\ call \in { "parseBlocksToHTML", "parseBlocksToWPMarkup" }
    /\ arg.type # "array"
    /\ result.state # "pending"

\* C14 as stated: parseBlocksToHTML and parseBlocksToWPMarkup called with a
\* value that is not an array raise an error and do not return.
NonArrayRaises == NonArrayCallEnded => result.state = "thrown"

\* C14: parseBlocksToHTML and parseBlocksToWPMarkup called with a value that
\* is not an array return the empty string and raise no error.
NonArrayReturnsEmpty == NonArrayCallEnded => result = Returned(<< >>)

\* one block outside an array was passed to parseBlocksToHTML, which
\* returned; a call with an array has raised in another behaviour
NonArrayReturnsEmptyWitness ==
    /\ call = "parseBlocksToHTML"
    /\ arg.type = "object"
    /\ arg.object.attributes.contentType = "text"
    /\ result.state = "returned"

LookupIsTotal ==
    (call = "getTagConfig" /\ arg.type = "string" /\ result.state # "pending") =>
        /\ result.state = "returned"
        /\ LET name == toLowerCase(arg.chars)
           IN  CASE name = << "s", "e", "t" >> ->
                       result.value = [contentType |-> "empty", selfClosing |-> TRUE]
                 [] name = << "l", "o", "o", "p" >> ->
                       result.value = [contentType |-> "blocks", selfClosing |-> FALSE]
                 [] name = << "i", "f" >> ->
                       result.value = [contentType |-> "blocks", selfClosing |-> FALSE]
                 [] OTHER -> result.value = null

(***************************************************************************)
(* C17  Content in the reverse output                                      *)
(***************************************************************************)
RECURSIVE EmittedAtDepth(_, _)
\* the blocks the reverse transcoder writes a tag for, each with its depth:
\* the blocks of bs and, under a block of contentType blocks that is not
\* self-closing, its inner blocks
EmittedAtDepth(bs, d) ==
    UNION { { << bs[k], d >> }
            \cup (IF ContentTypeOf(bs[k]) = "blocks" /\ ~DecidedSelfClosing(bs[k])
                  THEN EmittedAtDepth(bs[k].innerBlocks, d + 1)
                  ELSE { }) : k \in DOMAIN bs }

\* <tag attrs of block b
TagStart(b) ==
    << "<" >> \o TagNameOf(b)
    \o BuildAttributesString(Field(b.attributes, "className", << >>),
                             Field(b.attributes, "globalAttrs", << >>))

\* C17: in compact and in pretty mode and at every depth, the output holds
\* for every text or html block that is not self-closing its opening tag,
\* then exactly its content, then its closing tag.
ContentIsVerbatim ==
    pc = "done" =>
        \A e \in EmittedAtDepth(blocks, 0) :
            (ContentTypeOf(e[1]) \in { "text", "html" } /\ ~DecidedSelfClosing(e[1])) =>
                CountOf(output,
                        TagStart(e[1]) \o << ">" >> \o ContentOf(e[1])
                        \o << "<", "/" >> \o TagNameOf(e[1]) \o << ">" >>) >= 1

(***************************************************************************)
(* C18  Indentation of the reverse output in pretty mode                   *)
(***************************************************************************)
\* C18: in pretty mode every block at depth d starts on a line that is
\* indented by exactly 2 * d spaces.
PrettyIndentsByDepth ==
    (pc = "done" /\ pretty) =>
        \A e \in EmittedAtDepth(blocks, 0) :
            \E k \in DOMAIN Lines(output) :
                /\ LeadingSpaces(Lines(output)[k]) = 2 * e[2]
                /\ StartsWithAt(Lines(output)[k], 2 * e[2] + 1, TagStart(e[1]))

(***************************************************************************)
(* C19  Forward traversal                                                  *)
(***************************************************************************)
IsBlank(data) == \A i \in DOMAIN data : data[i] \in WhiteSpace

\* text is data without the white space at its start and at its end
IsTrimOf(text, data) ==
    /\ text # << >>
    /\ text[1] \notin WhiteSpace
    /\ text[Len(text)] \notin WhiteSpace
    /\ \E i \in DOMAIN data :
          /\ SubSeq(data, i, i + Len(text) - 1) = text
          /\ IsBlank(SubSeq(data, 1, i - 1))
          /\ IsBlank(SubSeq(data, i + Len(text), Len(data)))

RECURSIVE Traversed(_, _)
\* bs holds, in the order of nodes, one block per element and one per text
\* node that is not blank, the latter a p with the trimmed text; the same
\* inside every block of contentType blocks
Traversed(nodes, bs) ==
    LET kept == SelectSeq(nodes, LAMBDA n :
                    n.nodeType = 1 \/ (n.nodeType = 3 /\ ~IsBlank(n.data)))
    IN  /\ Len(bs) = Len(kept)
        /\ \A k \in DOMAIN kept :
              IF kept[k].nodeType = 3
              THEN /\ bs[k].attributes.tagName = p
                   /\ bs[k].attributes.contentType = "text"
                   /\ IsTrimOf(bs[k].attributes.content, kept[k].data)
                   /\ bs[k].innerBlocks = << >>
              ELSE /\ bs[k].attributes.tagName = toLowerCase(kept[k].tagName)
                   /\ bs[k].attributes.contentType = "blocks" =>
                         Traversed(kept[k].childNodes, bs[k].innerBlocks)

\* C19: at the top level and inside every blocks node the block sequence
\* holds one block per element child and one per text child that is not
\* blank, in source order; a blank text node gives no block; any other text
\* node gives a block with tagName p, contentType text and the trimmed text
\* as content.
TraversalKeepsOrder == Converted => Traversed(WalkedNodes, blocks)

\* a text node, an element and a blank text node have given two blocks, the
\* first one a p with the text
TraversalKeepsOrderWitness ==
    /\ Converted
    /\ Len(WalkedNodes) = 3
    /\ WalkedNodes[1].nodeType = 3
    /\ WalkedNodes[2].nodeType = 1
    /\ WalkedNodes[3].nodeType = 3
    /\ IsBlank(WalkedNodes[3].data)
    /\ Len(blocks) = 2
    /\ blocks[1].attributes.tagName = p
    /\ blocks[1].attributes.content = << "H", "i" >>

(***************************************************************************)
(* C20  A batch goes on after a failure                                    *)
(***************************************************************************)
\* reading, parsing, converting or writing the file fails
Fails(file) ==
    \/ ~file.readable
    \/ ~file.writable
    \/ /\ command = "blocks-to-html"
       /\ \/ ~file.content.valid
          \/ /\ file.content.value.type = "array"
             /\ \E k \in DOMAIN file.content.value.items :
                   "attributes" \notin DOMAIN file.content.value.items[k]

\* C20: a file that fails is counted as an error and the files after it are
\* still handled: the loop reaches the end of the files and the command
\* reports; every handled file is counted once, as a success exactly when
\* its output was written and as an error exactly when it failed; a success
\* is counted only when the output of the file is written; at the end
\* successCount + errorCount is the number of files found.
BatchGoesOn ==
    /\ [](/\ successCount + errorCount = cursor
          /\ successCount = Cardinality(written \cap 1 .. cursor)
          /\ errorCount = Cardinality({ i \in 1 .. cursor : Fails(files[i]) })
          /\ written \cap 1 .. cursor = { i \in 1 .. cursor : ~Fails(files[i]) }
          /\ attempt = "written" => cursor + 1 \in written
          /\ phase = "reported" => successCount + errorCount = Len(files))
    /\ [][successCount' # successCount => cursor + 1 \in written]_vars
    /\ <>(phase \in { "reported", "nofiles" })
    /\ [](phase = "nofiles" => files = << >>)

\* a batch of three files whose first file failed has ended with the two
\* others written
BatchGoesOnWitness ==
    /\ phase = "reported"
    /\ command = "blocks-to-html"
    /\ Len(files) = 3
    /\ ~files[1].content.valid
    /\ written = { 2, 3 }
    /\ successCount = 2
    /\ errorCount = 1

(***************************************************************************)
(* C22  The names of the emitted attributes                                *)
(***************************************************************************)
\* C22: every attribute in a tag the reverse transcoder writes has a name:
\* the attribute string is a run of name="value" pairs and no pair has the
\* empty name, whatever the names of the entries of the attribute map are.
EmittedNamesAreNotEmpty ==
    \A r \in Rendered :
        \A emitted \in { EmittedPairs(r) } :
            /\ emitted.ok
            /\ \A pair \in Range(emitted.pairs) : pair.name # << >>

(***************************************************************************)
(* C21  The comments of the markup                                         *)
(***************************************************************************)
RECURSIVE ForestSize(_)
\* the number of blocks of the block array bs at every depth
ForestSize(bs) ==
    IF bs = << >> THEN 0
    ELSE 1 + ForestSize(Head(bs).innerBlocks) + ForestSize(Tail(bs))

\* the number of blocks of the tree of block b
TreeSize(b) == ForestSize(<< b >>)

RECURSIVE ClosedInForest(_)
\* the number of blocks of bs at every depth that are written with a
\* closing comment
ClosedInForest(bs) ==
    IF bs = << >> THEN 0
    ELSE (IF isSelfClosing(Head(bs).attributes, Head(bs).innerBlocks) THEN 0 ELSE 1)
         + ClosedInForest(Head(bs).innerBlocks) + ClosedInForest(Tail(bs))

ClosingComments(b) == ClosedInForest(<< b >>)

WpOpeningMarker == SubSeq(WpOpen, 1, Len(WpOpen) - 1)

\* C21: the JSON text of no block holds the end of a comment, and the
\* markup of a tree of n blocks holds n opening markers and no end of a
\* comment but the one the serializer writes at the end of each of its
\* comments.
CommentsAreWellFormed ==
    /\ \A b \in AllBlocks(blocks) :
          CountOf(AttributesJSON(BlockAttrs(b.attributes)), CommentEnd) = 0
    /\ \A r \in RenderedMarkup :
          /\ CountOf(r[2], WpOpeningMarker) = TreeSize(r[1])
          /\ CountOf(r[2], CommentEnd) = TreeSize(r[1]) + ClosingComments(r[1])

====
